---- MODULE Spec2Model ----
(***************************************************************************)
(* The request pipeline of ollama-proxy (package main): proxyHandler, its  *)
(* callees validateRequest, getReverseProxy, the response-capturing        *)
(* responseWriter and the detached sendMetrics task.                       *)
(*                                                                         *)
(* A handler goroutine is modelled between its blocking points: the        *)
(* validation POST and the backend round trip.  Everything the handler     *)
(* does between two blocking points is one action.                         *)
(***************************************************************************)
EXTENDS Integers, Sequences, FiniteSets, TLC

\* Number of inbound requests, all of which may be in flight together.
NumReqs == 2

Reqs == 1..NumReqs

\* Handlers that call getReverseProxy at about the same time.
NumCallers == 3

Callers == 1..NumCallers

(***************************************************************************)
(* JSON.  A body is a sequence of chunks of text, each one top-level value *)
(* or text that is no JSON.  Parsing a chunk gives, for each key the code  *)
(* looks at, a typed value or nothing.                                     *)
(***************************************************************************)
Absent == [t |-> "absent", s |-> "", n |-> 0, b |-> FALSE]

JStr(x) == [t |-> "string", s |-> x, n |-> 0, b |-> FALSE]

JNum(x) == [t |-> "number", s |-> "", n |-> x, b |-> FALSE]

JBool(x) == [t |-> "bool", s |-> "", n |-> 0, b |-> x]

NoFields ==
  [model |-> Absent, stream |-> Absent, valid |-> Absent, rateLimited |-> Absent,
   prompt_eval_count |-> Absent, eval_count |-> Absent]

\* The texts that are JSON objects, with the keys each one holds.
Fields(chunk) ==
  CASE chunk = "{\"model\":\"llama2\",\"messages\":[]}" ->
         [NoFields EXCEPT !.model = JStr("llama2")]
    [] chunk = "{\"invalid\":\"body\"}" -> NoFields
    [] chunk = "{\"valid\":true,\"rateLimited\":false}" ->
         [NoFields EXCEPT !.valid = JBool(TRUE), !.rateLimited = JBool(FALSE)]
    [] chunk = "{\"valid\":true,\"rateLimited\":true}" ->
         [NoFields EXCEPT !.valid = JBool(TRUE), !.rateLimited = JBool(TRUE)]
    [] chunk = "{\"valid\":false,\"rateLimited\":false}" ->
         [NoFields EXCEPT !.valid = JBool(FALSE), !.rateLimited = JBool(FALSE)]
    [] chunk = "{\"valid\":false,\"rateLimited\":true}" ->
         [NoFields EXCEPT !.valid = JBool(FALSE), !.rateLimited = JBool(TRUE)]
    [] chunk = "{\"valid\":\"yes\"}" -> [NoFields EXCEPT !.valid = JStr("yes")]
    [] chunk = "{\"prompt_eval_count\":10,\"eval_count\":20}" ->
         [NoFields EXCEPT !.prompt_eval_count = JNum(10), !.eval_count = JNum(20)]
    [] chunk = "{\"done\":false}" -> NoFields
    [] chunk = "{\"model\":\"mistral\",\"prompt\":\"hi\"}" ->
         [NoFields EXCEPT !.model = JStr("mistral")]
    [] chunk = "{\"model\":\"nomic-embed\",\"input\":\"hi\"}" ->
         [NoFields EXCEPT !.model = JStr("nomic-embed")]
    [] chunk = "{\"model\":\"custom-model\"}" ->
         [NoFields EXCEPT !.model = JStr("custom-model")]
    [] chunk = "{\"model\":7}" -> [NoFields EXCEPT !.model = JNum(7)]
    [] chunk = "{\"prompt_eval_count\":15,\"eval_count\":25}" ->
         [NoFields EXCEPT !.prompt_eval_count = JNum(15), !.eval_count = JNum(25)]
    [] chunk = "{\"prompt_eval_count\":5}" ->
         [NoFields EXCEPT !.prompt_eval_count = JNum(5)]
    [] chunk = "{\"prompt_eval_count\":10,\"eval_count\":\"many\"}" ->
         [NoFields EXCEPT !.prompt_eval_count = JNum(10), !.eval_count = JStr("many")]
    [] chunk = "{\"model\":\"llama2\",\"stream\":\"yes\"}" ->
         [NoFields EXCEPT !.model = JStr("llama2"), !.stream = JStr("yes")]

IsObject(chunk) ==
  chunk \in {"{\"model\":\"llama2\",\"messages\":[]}", "{\"invalid\":\"body\"}",
             "{\"valid\":true,\"rateLimited\":false}", "{\"valid\":true,\"rateLimited\":true}",
             "{\"valid\":false,\"rateLimited\":false}", "{\"valid\":false,\"rateLimited\":true}",
             "{\"valid\":\"yes\"}", "{\"prompt_eval_count\":10,\"eval_count\":20}",
             "{\"done\":false}", "{\"model\":\"mistral\",\"prompt\":\"hi\"}",
             "{\"model\":\"nomic-embed\",\"input\":\"hi\"}", "{\"model\":\"custom-model\"}",
             "{\"prompt_eval_count\":15,\"eval_count\":25}", "{\"prompt_eval_count\":5}",
             "{\"prompt_eval_count\":10,\"eval_count\":\"many\"}",
             "{\"model\":7}", "{\"model\":\"llama2\",\"stream\":\"yes\"}"}

\* A field of a decoded struct accepts the JSON value: an absent key leaves
\* the zero value, a present key must have the field's type.
FieldOK(v, type) == v.t \in {"absent", type}

\* json.Unmarshal: the whole input must be exactly one JSON value.
UnmarshalOK(body, types) ==
  /\ Len(body) = 1
  /\ IsObject(body[1])
  /\ \A f \in DOMAIN types : FieldOK(Fields(body[1])[f], types[f])

\* json.NewDecoder(r).Decode: reads the first JSON value of the stream and
\* leaves what follows it unread.
DecodeOK(body, types) ==
  /\ Len(body) >= 1
  /\ IsObject(body[1])
  /\ \A f \in DOMAIN types : FieldOK(Fields(body[1])[f], types[f])

\* A URL path is the sequence of its segments, each written after a "/".
\* strings.HasSuffix for a suffix that starts with "/".
HasSuffix(path, suffix) ==
  /\ Len(path) >= Len(suffix)
  /\ SubSeq(path, Len(path) - Len(suffix) + 1, Len(path)) = suffix

(***************************************************************************)
(* The shapes of types.go, as far as the pipeline reads them: the JSON key *)
(* of each field and the JSON type it takes.                               *)
(***************************************************************************)
ChatRequest == [model |-> "string", stream |-> "bool"]

GenerateRequest == [model |-> "string", stream |-> "bool"]

EmbedRequest == [model |-> "string"]

CreateRequest == [model |-> "string", stream |-> "bool"]

ValidationResponse == [valid |-> "bool", rateLimited |-> "bool"]

ChatResponse == [prompt_eval_count |-> "number", eval_count |-> "number"]

GenerateResponse == [prompt_eval_count |-> "number", eval_count |-> "number"]

EmbedResponse == [prompt_eval_count |-> "number"]

StatusOK == 200

StatusBadRequest == 400

StatusUnauthorized == 401

StatusNotFound == 404

StatusTooManyRequests == 429

StatusBadGateway == 502

(***************************************************************************)
(* getModelFromRequest and getTokenCountsFromResponse.                     *)
(***************************************************************************)
\* Mutant of getModelFromRequest: only the chat endpoint is looked at.
getModelFromRequestChatOnly(path, body) ==
  IF HasSuffix(path, <<"api", "chat">>) /\ UnmarshalOK(body, ChatRequest)
  THEN Fields(body[1]).model.s ELSE ""

getModelFromRequest(path, body) ==
  CASE HasSuffix(path, <<"api", "chat">>) ->
         IF UnmarshalOK(body, ChatRequest) THEN Fields(body[1]).model.s ELSE ""
    [] HasSuffix(path, <<"api", "generate">>) ->
         IF UnmarshalOK(body, GenerateRequest) THEN Fields(body[1]).model.s ELSE ""
    [] HasSuffix(path, <<"api", "embed">>) ->
         IF UnmarshalOK(body, EmbedRequest) THEN Fields(body[1]).model.s ELSE ""
    [] HasSuffix(path, <<"api", "create">>) ->
         IF UnmarshalOK(body, CreateRequest) THEN Fields(body[1]).model.s ELSE ""
    [] OTHER -> ""

\* Mutant of getTokenCountsFromResponse: the embed endpoint is left out.
getTokenCountsFromResponseNoEmbed(path, responseBody) ==
  IF (HasSuffix(path, <<"api", "chat">>) \/ HasSuffix(path, <<"api", "generate">>))
       /\ UnmarshalOK(responseBody, ChatResponse)
  THEN <<Fields(responseBody[1]).prompt_eval_count.n, Fields(responseBody[1]).eval_count.n>>
  ELSE <<0, 0>>

\* Mutant of getTokenCountsFromResponse: of a streamed answer the last object
\* is decoded.
getTokenCountsFromResponseLastObject(path, responseBody) ==
  LET last == IF responseBody = <<>> THEN <<>> ELSE <<responseBody[Len(responseBody)]>> IN
  CASE HasSuffix(path, <<"api", "chat">>) ->
         IF UnmarshalOK(last, ChatResponse)
         THEN <<Fields(last[1]).prompt_eval_count.n, Fields(last[1]).eval_count.n>>
         ELSE <<0, 0>>
    [] HasSuffix(path, <<"api", "generate">>) ->
         IF UnmarshalOK(last, GenerateResponse)
         THEN <<Fields(last[1]).prompt_eval_count.n, Fields(last[1]).eval_count.n>>
         ELSE <<0, 0>>
    [] HasSuffix(path, <<"api", "embed">>) ->
         IF UnmarshalOK(last, EmbedResponse)
         THEN <<Fields(last[1]).prompt_eval_count.n, 0>>
         ELSE <<0, 0>>
    [] OTHER -> <<0, 0>>

getTokenCountsFromResponse(path, responseBody) ==
  CASE HasSuffix(path, <<"api", "chat">>) ->
         IF UnmarshalOK(responseBody, ChatResponse)
         THEN <<Fields(responseBody[1]).prompt_eval_count.n, Fields(responseBody[1]).eval_count.n>>
         ELSE <<0, 0>>
    [] HasSuffix(path, <<"api", "generate">>) ->
         IF UnmarshalOK(responseBody, GenerateResponse)
         THEN <<Fields(responseBody[1]).prompt_eval_count.n, Fields(responseBody[1]).eval_count.n>>
         ELSE <<0, 0>>
    [] HasSuffix(path, <<"api", "embed">>) ->
         IF UnmarshalOK(responseBody, EmbedResponse)
         THEN <<Fields(responseBody[1]).prompt_eval_count.n, 0>>
         ELSE <<0, 0>>
    [] OTHER -> <<0, 0>>

(***************************************************************************)
(* What the pipeline is fed: inbound requests and the answers of the three *)
(* external services.                                                      *)
(***************************************************************************)
Keys == {"", "test-api-key"}

ChatBody == <<"{\"model\":\"llama2\",\"messages\":[]}">>

InvalidBody == <<"{\"invalid\":\"body\"}">>

NotJSON == <<"invalid json">>

\* The inbound requests: a chat request, a JSON body that is no chat request,
\* a body that is no JSON, and a path the pipeline does not recognise.
Inbound ==
  {[path |-> <<"api", "chat">>, body |-> ChatBody],
   [path |-> <<"api", "chat">>, body |-> InvalidBody],
   [path |-> <<"api", "chat">>, body |-> NotJSON],
   [path |-> <<"v1", "api", "tags">>, body |-> <<>>]}

GenerateBody == <<"{\"model\":\"mistral\",\"prompt\":\"hi\"}">>

EmbedBody == <<"{\"model\":\"nomic-embed\",\"input\":\"hi\"}">>

CreateBody == <<"{\"model\":\"custom-model\"}">>

\* JSON whose model is no string.
NumberModelBody == <<"{\"model\":7}">>

\* JSON whose stream is no boolean.
TextStreamBody == <<"{\"model\":\"llama2\",\"stream\":\"yes\"}">>

\* Paths that end in one of the four endpoints, and paths that do not.
AnyPaths ==
  {<<"api", "chat">>, <<"api", "generate">>, <<"api", "embed">>, <<"api", "create">>,
   <<"v1", "api", "generate">>, <<"api", "unknown">>, <<"api", "chat", "history">>,
   <<"chat">>, <<"health">>, <<>>}

\* Bodies of each request type, JSON of another shape, two JSON values, text
\* that is no JSON, and no body.
AnyBodies ==
  {ChatBody, GenerateBody, EmbedBody, CreateBody, InvalidBody, NumberModelBody,
   TextStreamBody, ChatBody \o ChatBody, NotJSON, <<>>}

\* Every path with every body.
AnyInbound == {[path |-> p, body |-> b] : p \in AnyPaths, b \in AnyBodies}

Verdict(valid, rateLimited) ==
  IF valid
  THEN IF rateLimited THEN <<"{\"valid\":true,\"rateLimited\":true}">>
                      ELSE <<"{\"valid\":true,\"rateLimited\":false}">>
  ELSE IF rateLimited THEN <<"{\"valid\":false,\"rateLimited\":true}">>
                      ELSE <<"{\"valid\":false,\"rateLimited\":false}">>

ValBodies == {Verdict(v, l) : v \in BOOLEAN, l \in BOOLEAN} \cup {NotJSON}

\* An outcome of an outbound call: a transport error (no connection, client
\* timeout), or a response.
TransportError == [err |-> TRUE, status |-> 0, body |-> <<>>]

Response(status, body) == [err |-> FALSE, status |-> status, body |-> body]

ValOutcomes ==
  {TransportError}
    \cup {Response(StatusOK, b) : b \in ValBodies}
    \cup {Response(StatusBadRequest, Verdict(TRUE, FALSE))}

ChatAnswer == <<"{\"prompt_eval_count\":10,\"eval_count\":20}">>

BackendOutcomes ==
  {TransportError, Response(StatusOK, ChatAnswer), Response(StatusNotFound, <<>>)}

MetricsOutcomes == {TransportError, Response(StatusOK, <<>>), Response(StatusBadRequest, <<>>)}

NoOutcome == [err |-> FALSE, status |-> 0, body |-> <<>>]

GenerateAnswer == <<"{\"prompt_eval_count\":15,\"eval_count\":25}">>

EmbedAnswer == <<"{\"prompt_eval_count\":5}">>

\* JSON whose eval_count is no number.
TextCountAnswer == <<"{\"prompt_eval_count\":10,\"eval_count\":\"many\"}">>

\* A streamed answer: one JSON value per line.
StreamedAnswer == <<"{\"done\":false}", "{\"prompt_eval_count\":10,\"eval_count\":20}">>

\* What the backend call can end with, whatever the endpoint.
AnyBackendOutcomes ==
  {TransportError, Response(StatusNotFound, <<>>)} \cup
  {Response(StatusOK, b) :
     b \in {ChatAnswer, GenerateAnswer, EmbedAnswer, TextCountAnswer, StreamedAnswer,
            NotJSON}}

(***************************************************************************)
(* State.                                                                  *)
(***************************************************************************)
VARIABLES
  pc,            \* where each handler goroutine stands
  req,           \* the inbound request, as far as the handler has read it
  details,       \* the RequestDetails of the request
  valOut,        \* what the validation call of the request ended with
  backendOut,    \* what the backend call of the request ended with
  backendHangs,  \* the backend never answers the request
  valHangs,      \* the validation service never answers the request
  rw,            \* the responseWriter wrapper of the request
  client,        \* the http.ResponseWriter of the request: what the caller gets
  calls,         \* outbound calls issued for the request
  logs,          \* log lines written for the request
  events,        \* pipeline steps of the request, in the order they ran
  verdict,       \* what validateRequest returned to the handler
  mtask,         \* where the sendMetrics goroutine of the request stands
  metrics,       \* the MetricsData handed to that goroutine
  proxyOnce,     \* sync.Once of getReverseProxy has run
  reverseProxy,  \* the process-wide forwarder
  once,          \* the callers inside proxyOnce.Do, step by step
  startup,       \* main, from loadConfig to the listener
  director,      \* one run of the forwarder's Director
  config,        \* the environment and the settings loadConfig made of it
  ids,           \* the clock and the X-Request-ID of each outbound call
  replay,        \* a request body on its way through ReadAll to the backend
  capture,       \* one responseWriter over its http.ResponseWriter, and the calls made on it
  outbound,      \* the HTTP clients constructed and the messages sent with their headers
  target         \* the configured backend URL, the forwarder built from it, where requests went

\* The state of the requests in flight.
requestVars ==
  <<pc, req, details, valOut, backendOut, backendHangs, valHangs, rw, client, calls,
    logs, events, verdict, mtask, metrics>>

\* The state of the units that are also checked on their own.
unitVars == <<once, startup, director, config, ids, replay, capture, outbound, target>>

\* The last three of them.
sideVars == <<capture, outbound, target>>

vars == <<requestVars, proxyOnce, reverseProxy, unitVars>>

NoRequest == [key |-> "", path |-> <<>>, body |-> <<>>, readErr |-> FALSE]

NoDetails == [apiKey |-> "", endpoint |-> <<>>, model |-> ""]

NoMetrics ==
  [apiKey |-> "", model |-> "", inputTokenLength |-> 0, outputTokenLength |-> 0,
   endpoint |-> <<>>]

\* A fresh http.ResponseWriter: no header written, no body.
NewWriter == [headers |-> 0, status |-> 0, body |-> <<>>]

\* &responseWriter{ResponseWriter: w, body: &bytes.Buffer{}}
NewResponseWriter == [body |-> <<>>, statusCode |-> 0]

\* No caller is inside proxyOnce.Do.
OnceIdle ==
  [urlOK |-> TRUE, m |-> 0,
   at |-> [c \in Callers |-> "idle"],
   slow |-> [c \in Callers |-> FALSE],
   got |-> [c \in Callers |-> "none"],
   built |-> 0]

\* The three services main probes before it listens.
Probes == <<"ollama", "validation", "metrics">>

\* main has probed the three services, all answered 200, and it listens.
Listening ==
  [at |-> "listening", env |-> [i \in 1..3 |-> Response(StatusOK, <<>>)],
   err |-> "", probed |-> Probes, exit |-> 0]

\* The Director has not run.
NoDirector ==
  [a |-> <<>>, b |-> <<>>, tq |-> <<>>, rq |-> <<>>,
   path |-> <<>>, query |-> <<>>, ran |-> FALSE]

(***************************************************************************)
(* loadConfig.  The environment gives each variable as unset or set to a   *)
(* text; os.Getenv does not tell an unset variable from an empty one.      *)
(***************************************************************************)
Unset == [set |-> FALSE, value |-> ""]

SetTo(v) == [set |-> TRUE, value |-> v]

\* An environment with nothing set: the eight variables loadConfig reads and
\* the two the README and the chart name for the backend and the port.
NoEnv ==
  [OLLAMA_URL |-> Unset, EXTERNAL_VALIDATION_URL |-> Unset, EXTERNAL_METRICS_URL |-> Unset,
   API_KEY_HEADER_NAME |-> Unset, PROXY_PORT |-> Unset, EXTERNAL_SERVER_API_KEY |-> Unset,
   EXTERNAL_SERVER_CERT |-> Unset, SKIP_TLS_VERIFY |-> Unset,
   OLLAMA_HOST |-> Unset, PORT |-> Unset]

\* os.Getenv
Getenv(env, key) == IF env[key].set THEN env[key].value ELSE ""

\* Mutant of getEnvOrDefault: a variable that is set wins, also when empty.
getEnvOrDefaultWhenUnset(env, key, defaultValue) ==
  IF env[key].set THEN env[key].value ELSE defaultValue

getEnvOrDefault(env, key, defaultValue) ==
  IF Getenv(env, key) # "" THEN Getenv(env, key) ELSE defaultValue

\* The package variables as loadConfig leaves them.
loadConfig(env) ==
  [ollamaURL |-> getEnvOrDefault(env, "OLLAMA_URL", "http://localhost:11434"),
   externalValidationURL |->
     getEnvOrDefault(env, "EXTERNAL_VALIDATION_URL", "http://external-server.com/validate"),
   externalMetricsURL |->
     getEnvOrDefault(env, "EXTERNAL_METRICS_URL", "http://external-server.com/log_metrics"),
   apiKeyHeaderName |-> getEnvOrDefault(env, "API_KEY_HEADER_NAME", "X-API-Key"),
   proxyPort |-> getEnvOrDefault(env, "PROXY_PORT", "8080"),
   externalServerAPIKey |-> getEnvOrDefault(env, "EXTERNAL_SERVER_API_KEY", ""),
   externalServerCert |-> getEnvOrDefault(env, "EXTERNAL_SERVER_CERT", ""),
   skipTLSVerify |-> getEnvOrDefault(env, "SKIP_TLS_VERIFY", "false") = "true"]

\* The package variables before loadConfig: Go's zero values.
ZeroConfig ==
  [ollamaURL |-> "", externalValidationURL |-> "", externalMetricsURL |-> "",
   apiKeyHeaderName |-> "", proxyPort |-> "", externalServerAPIKey |-> "",
   externalServerCert |-> "", skipTLSVerify |-> FALSE]

\* loadConfig has run in an environment with nothing set.
Configured == [env |-> NoEnv, loaded |-> TRUE, settings |-> loadConfig(NoEnv)]

\* The clock's first reading, in nanoseconds.
FirstReading == 8

\* No outbound call has been prepared; the clock shows its first reading.
NoIds ==
  [now |-> FirstReading,
   made |-> [c \in Callers |-> 0],
   sent |-> {}]

\* No body is on its way.
NoReplay ==
  [body |-> <<>>, unread |-> <<>>, bodyBytes |-> <<>>, buffer |-> <<>>,
   received |-> <<>>, at |-> "idle"]

\* A new responseWriter over a new http.ResponseWriter; nothing was called.
NoCapture ==
  [p |-> [rw |-> NewResponseWriter, w |-> NewWriter], called |-> <<>>]

\* No client has been constructed and nothing was sent.
NoOutbound == [made |-> 0, at |-> "main", stage |-> [c \in Callers |-> "idle"], sent |-> {}]

\* loadConfig has set ollamaURL to its default; getReverseProxy was not called.
NoTarget ==
  [ollamaURL |-> "http://localhost:11434", proxyOnce |-> FALSE, at |-> "serving",
   targetURL |-> [scheme |-> "", host |-> ""], first |-> "", forwarded |-> {}]

\* No request has arrived and no forwarder exists.
RequestsInit ==
  /\ pc = [r \in Reqs |-> "idle"]
  /\ req = [r \in Reqs |-> NoRequest]
  /\ details = [r \in Reqs |-> NoDetails]
  /\ valOut = [r \in Reqs |-> NoOutcome]
  /\ backendOut = [r \in Reqs |-> NoOutcome]
  /\ backendHangs = [r \in Reqs |-> FALSE]
  /\ valHangs = [r \in Reqs |-> FALSE]
  /\ rw = [r \in Reqs |-> NewResponseWriter]
  /\ client = [r \in Reqs |-> NewWriter]
  /\ calls = [r \in Reqs |-> [validation |-> 0, backend |-> 0, metrics |-> 0]]
  /\ logs = [r \in Reqs |-> <<>>]
  /\ events = [r \in Reqs |-> <<>>]
  /\ verdict = [r \in Reqs |-> "pending"]
  /\ mtask = [r \in Reqs |-> "none"]
  /\ metrics = [r \in Reqs |-> NoMetrics]
  /\ proxyOnce = FALSE
  /\ reverseProxy = "nil"

\* The server once main has reached ListenAndServe.
Init ==
  /\ RequestsInit
  /\ once = OnceIdle
  /\ startup = Listening
  /\ director = NoDirector
  /\ config = Configured
  /\ ids = NoIds
  /\ replay = NoReplay
  /\ capture = NoCapture
  /\ outbound = NoOutbound
  /\ target = NoTarget

(***************************************************************************)
(* Writers.                                                                *)
(***************************************************************************)
\* http.ResponseWriter.WriteHeader: the first call sets the status line, a
\* later one is superfluous and changes nothing but is still a call.
WriteHeader(w, statusCode) ==
  [w EXCEPT !.headers = @ + 1, !.status = IF w.headers = 0 THEN statusCode ELSE @]

\* http.ResponseWriter.Write: writes the 200 header first when none was written.
Write(w, b) ==
  LET h == IF w.headers = 0 THEN WriteHeader(w, StatusOK) ELSE w
  IN  [h EXCEPT !.body = Append(@, b)]

\* Mutant of HttpError: the status line alone, no body.
HttpErrorStatusOnly(w, msg, code) == WriteHeader(w, code)

\* http.Error(w, msg, code)
HttpError(w, msg, code) == Write(WriteHeader(w, code), msg)

\* The wrapper and the writer under it, as one value.
Wrapped(wrapper, w) == [rw |-> wrapper, w |-> w]

\* Mutant of rwWrite: the chunk is captured but not passed on.
rwWriteCaptureOnly(p, b) == Wrapped([p.rw EXCEPT !.body = Append(@, b)], p.w)

\* func (rw *responseWriter) Write(b []byte)
rwWrite(p, b) ==
  Wrapped([p.rw EXCEPT !.body = Append(@, b)], Write(p.w, b))

\* Mutant of rwWriteHeader: the status is recorded but not passed on.
rwWriteHeaderCaptureOnly(p, statusCode) ==
  Wrapped([p.rw EXCEPT !.statusCode = statusCode], p.w)

\* Mutant of rwWriteHeader: only the first status is recorded.
rwWriteHeaderFirstOnly(p, statusCode) ==
  Wrapped([p.rw EXCEPT !.statusCode = IF @ = 0 THEN statusCode ELSE @],
          WriteHeader(p.w, statusCode))

\* func (rw *responseWriter) WriteHeader(statusCode int)
rwWriteHeader(p, statusCode) ==
  Wrapped([p.rw EXCEPT !.statusCode = statusCode], WriteHeader(p.w, statusCode))

RECURSIVE rwWriteAll(_, _)
\* io copy of a response body: one Write per chunk read.
rwWriteAll(p, body) ==
  IF body = <<>> THEN p ELSE rwWriteAll(rwWrite(p, Head(body)), Tail(body))

\* Mutant of ServeHTTP: a failed round trip is left unanswered.
ServeHTTPSilentOnError(p, out) ==
  IF out.err THEN p ELSE rwWriteAll(rwWriteHeader(p, out.status), out.body)

\* proxy.ServeHTTP(responseWriter, r), once the round trip to the backend has
\* ended: the backend's status and body are copied to the writer; a failed
\* round trip is answered by the forwarder's error handler with 502.
ServeHTTP(p, out) ==
  IF out.err
  THEN rwWriteHeader(p, StatusBadGateway)
  ELSE rwWriteAll(rwWriteHeader(p, out.status), out.body)

(***************************************************************************)
(* Logging (package logger).                                               *)
(***************************************************************************)
\* The api_key and endpoint entries of the fields map of a line.
LogFields(apiKey, endpoint) == [api_key |-> apiKey, endpoint |-> endpoint]

\* A line written without a fields map.
NoLogFields == LogFields("", <<>>)

LogLine(by, level, fields) == [by |-> by, level |-> level, fields |-> fields]

\* logger.RequestLog: the level follows the status code.
RequestLog(statusCode, fields) ==
  LogLine("proxyHandler",
          IF statusCode >= 400 THEN "ERROR"
          ELSE IF statusCode >= 300 THEN "WARNING" ELSE "INFO",
          fields)

\* map[string]interface{}{"api_key": metrics.APIKey, ..., "endpoint": metrics.Endpoint}
metricsFields(m) == LogFields(m.apiKey, m.endpoint)

(***************************************************************************)
(* validateRequest, from the point where client.Do has ended with `out`.   *)
(* The result is the boolean the caller sees and the lines logged.         *)
(***************************************************************************)
\* Mutant of Approves: the rate-limit flag is not looked at.
ApprovesIgnoringRateLimit(validationResp) == validationResp.valid.b

\* return validationResp.Valid && !validationResp.RateLimited
Approves(validationResp) == validationResp.valid.b /\ ~validationResp.rateLimited.b

\* The decoded response approves.
validationRespOK(out) == Approves(Fields(out.body[1]))

\* Mutant of validationFields: the API key is left out of the map.
validationFieldsNoKey(d) == LogFields("", d.endpoint)

\* map[string]interface{}{"api_key": details.APIKey, "endpoint": details.Endpoint}
validationFields(d) == LogFields(d.apiKey, d.endpoint)

\* Mutant of validateRequest: the status code is not checked.
validateRequestAnyStatus(d, out) ==
  IF out.err
  THEN [ok |-> FALSE, logs |-> <<LogLine("validateRequest", "ERROR", validationFields(d))>>]
  ELSE IF ~DecodeOK(out.body, ValidationResponse)
  THEN [ok |-> FALSE, logs |-> <<LogLine("validateRequest", "ERROR", validationFields(d))>>]
  ELSE [ok |-> validationRespOK(out), logs |-> <<>>]

\* Mutant of validateRequest: failures are not logged.
validateRequestQuiet(d, out) ==
  [ok |-> /\ ~out.err
          /\ out.status = StatusOK
          /\ DecodeOK(out.body, ValidationResponse)
          /\ validationRespOK(out),
   logs |-> <<>>]

validateRequest(d, out) ==
  IF out.err
  THEN [ok |-> FALSE, logs |-> <<LogLine("validateRequest", "ERROR", validationFields(d))>>]
  ELSE IF out.status # StatusOK
  THEN [ok |-> FALSE, logs |-> <<LogLine("validateRequest", "WARNING", validationFields(d))>>]
  ELSE IF ~DecodeOK(out.body, ValidationResponse)
  THEN [ok |-> FALSE, logs |-> <<LogLine("validateRequest", "ERROR", validationFields(d))>>]
  ELSE [ok |-> validationRespOK(out), logs |-> <<>>]

(***************************************************************************)
(* proxyHandler.                                                           *)
(***************************************************************************)
\* Mutant of MissingKey: the check is skipped.
MissingKeyNever(apiKey) == FALSE

\* if apiKey == ""
MissingKey(apiKey) == apiKey = ""

\* One more outbound call to a service.
Called(c, service) == [c EXCEPT ![service] = @ + 1]

\* The steps the handler runs from its entry up to the validation call.
EntrySteps == <<"keyCheck", "bodyRead", "modelExtract", "validationCall">>

\* Mutant of CompletionSteps: the metrics goroutine is started before the log.
CompletionStepsDispatchFirst ==
  <<"backendReturn", "tokenExtract", "metricsDispatch", "completionLog">>

\* The steps the handler runs once the forwarder has returned.
CompletionSteps == <<"backendReturn", "tokenExtract", "completionLog", "metricsDispatch">>

\* Mutant of Returned: sendMetrics is called without `go`, so the handler is
\* inside it until the POST has ended.
ReturnedAfterMetrics == "metrics"

\* The handler's position after `go sendMetrics(...)`, its last statement: it
\* has returned, whatever the goroutine does.
Returned == "done"

\* Mutant of goSendMetrics: a report equal to one already handed over by
\* another request is dropped.
goSendMetricsOnce(r, data) ==
  IF \E q \in Reqs \ {r} : mtask[q] # "none" /\ metrics[q] = data
  THEN "none" ELSE "spawned"

\* Mutant of goSendMetrics: no report for a request the backend call of which
\* ended with an error status.
goSendMetricsOnSuccess(r, data) ==
  IF rw'[r].statusCode >= StatusBadRequest THEN "none" ELSE "spawned"

\* go sendMetrics(data): a new goroutine for every request that got this far.
goSendMetrics(r, data) == "spawned"

\* Mutant of NewMetricsData: the model field is left out of the literal.
NewMetricsDataNoModel(apiKey, d, tokens) ==
  [apiKey |-> apiKey, model |-> "",
   inputTokenLength |-> tokens[1], outputTokenLength |-> tokens[2],
   endpoint |-> d.endpoint]

\* Mutant of NewMetricsData: the details are those of a package variable that
\* the handler of the first request has written.
NewMetricsDataShared(apiKey, d, tokens) ==
  [apiKey |-> apiKey, model |-> details[1].model,
   inputTokenLength |-> tokens[1], outputTokenLength |-> tokens[2],
   endpoint |-> details[1].endpoint]

\* MetricsData{APIKey: apiKey, Model: details.Model, InputTokenLength: ...,
\* OutputTokenLength: ..., Endpoint: details.Endpoint}
NewMetricsData(apiKey, d, tokens) ==
  [apiKey |-> apiKey, model |-> d.model,
   inputTokenLength |-> tokens[1], outputTokenLength |-> tokens[2],
   endpoint |-> d.endpoint]

\* Mutant of ReadAllFailed: the error of io.ReadAll is not looked at.
ReadAllErrorIgnored(err) == FALSE

\* bodyBytes, err := io.ReadAll(r.Body); if err != nil
ReadAllFailed(err) == err

\* sync.Once: the forwarder is built by the first caller only.
getReverseProxy ==
  /\ proxyOnce' = TRUE
  /\ reverseProxy' = IF proxyOnce THEN reverseProxy ELSE "forwarder"

\* From the entry of proxyHandler to its first blocking point: the 401 for a
\* missing key, the 400 for an unreadable body, or the validation POST.
ReceiveFrom(r, inbound) ==
  /\ pc[r] = "idle"
  /\ \E apiKey \in Keys, in \in inbound :
       LET path == in.path IN
       IF MissingKey(apiKey)
       THEN /\ req' = [req EXCEPT ![r] = [key |-> apiKey, path |-> path, body |-> <<>>,
                                              readErr |-> FALSE]]
            /\ logs' = [logs EXCEPT ![r] =
                          Append(@, LogLine("proxyHandler", "WARNING", LogFields("", path)))]
            /\ client' = [client EXCEPT ![r] =
                            HttpError(@, "Unauthorized: Missing API key", StatusUnauthorized)]
            /\ events' = [events EXCEPT ![r] = SubSeq(EntrySteps, 1, 1)]
            /\ pc' = [pc EXCEPT ![r] = "done"]
            /\ UNCHANGED <<details, calls>>
       ELSE \E readFails \in BOOLEAN :
            LET body == in.body IN
            IF ReadAllFailed(readFails)
            THEN /\ req' = [req EXCEPT ![r] = [key |-> apiKey, path |-> path, body |-> <<>>,
                                                   readErr |-> readFails]]
                 /\ logs' = [logs EXCEPT ![r] =
                               Append(@, LogLine("proxyHandler", "ERROR",
                                                 LogFields(apiKey, path)))]
                 /\ client' = [client EXCEPT ![r] =
                                 HttpError(@, "Error reading request body", StatusBadRequest)]
                 /\ events' = [events EXCEPT ![r] = SubSeq(EntrySteps, 1, 2)]
                 /\ pc' = [pc EXCEPT ![r] = "done"]
                 /\ UNCHANGED <<details, calls>>
            ELSE /\ req' = [req EXCEPT ![r] = [key |-> apiKey, path |-> path,
                                                   body |-> IF readFails THEN <<>> ELSE body,
                                                   readErr |-> readFails]]
                 /\ details' = [details EXCEPT ![r] =
                                  [apiKey |-> apiKey, endpoint |-> path,
                                   model |-> getModelFromRequest(path, body)]]
                 /\ calls' = [calls EXCEPT ![r] = Called(@, "validation")]
                 /\ events' = [events EXCEPT ![r] = EntrySteps]
                 /\ pc' = [pc EXCEPT ![r] = "validating"]
                 /\ UNCHANGED <<logs, client>>
  /\ UNCHANGED <<valOut, backendOut, backendHangs, valHangs, rw, verdict, mtask, metrics,
                 proxyOnce, reverseProxy, unitVars>>

\* proxyHandler is entered with one of the requests of Inbound.
Receive(r) == ReceiveFrom(r, Inbound)

\* Mutant of ClientDoEnds: client.Do waits for the server's answer, however
\* long that takes.
ClientDoEndsOnAnswer(hangs) == ~hangs

\* client.Do of the client of getSecureHTTPClient, Timeout: 10 * time.Second:
\* it returns when the server has answered and also when it has not.
ClientDoEnds(hangs) == TRUE

\* What client.Do returns: the server's answer, or the error of the timeout
\* when the server stays silent.
ClientDoOutcomes(hangs, answers) == IF hangs THEN {TransportError} ELSE answers

\* The validation service will not answer this call.
ValidationSilent(r) ==
  /\ pc[r] = "validating"
  /\ ~valHangs[r]
  /\ valHangs' = [valHangs EXCEPT ![r] = TRUE]
  /\ UNCHANGED <<pc, req, details, valOut, backendOut, backendHangs, rw, client, calls,
                 logs, events, verdict, mtask, metrics, proxyOnce, reverseProxy, unitVars>>

\* validateRequest returns; the handler answers 401 or hands the request to
\* the forwarder, which starts the round trip to the backend.
ValidationReturn(r) ==
  /\ pc[r] = "validating"
  /\ ClientDoEnds(valHangs[r])
  /\ \E out \in ClientDoOutcomes(valHangs[r], ValOutcomes) :
       LET v == validateRequest(details[r], out) IN
       /\ valOut' = [valOut EXCEPT ![r] = out]
       /\ verdict' = [verdict EXCEPT ![r] = IF v.ok THEN "approved" ELSE "denied"]
       /\ IF ~v.ok
          THEN /\ logs' = [logs EXCEPT ![r] =
                             @ \o v.logs
                               \o <<LogLine("proxyHandler", "WARNING",
                                             LogFields(req[r].key, req[r].path))>>]
               /\ client' = [client EXCEPT ![r] =
                               HttpError(@, "Unauthorized: Invalid request", StatusUnauthorized)]
               /\ events' = [events EXCEPT ![r] = Append(@, "validationReturn")]
               /\ pc' = [pc EXCEPT ![r] = "done"]
               /\ UNCHANGED <<calls, backendHangs, rw, proxyOnce, reverseProxy>>
          ELSE /\ logs' = [logs EXCEPT ![r] = @ \o v.logs]
               /\ rw' = [rw EXCEPT ![r] = NewResponseWriter]
               /\ getReverseProxy
               /\ calls' = [calls EXCEPT ![r] = Called(@, "backend")]
               /\ events' = [events EXCEPT ![r] = @ \o <<"validationReturn", "backendCall">>]
               /\ \E hangs \in BOOLEAN : backendHangs' = [backendHangs EXCEPT ![r] = hangs]
               /\ pc' = [pc EXCEPT ![r] = "proxying"]
               /\ UNCHANGED client
  /\ UNCHANGED <<req, details, backendOut, valHangs, mtask, metrics, unitVars>>

\* The forwarder returns: the backend's answer (or the 502 of a failed round
\* trip) has gone through the wrapper to the caller; the handler extracts the
\* token counts, writes the completion log and starts the sendMetrics goroutine.
BackendReturnFrom(r, outcomes) ==
  /\ pc[r] = "proxying"
  /\ ~backendHangs[r]
  /\ \E out \in outcomes :
       LET p == ServeHTTP(Wrapped(rw[r], client[r]), out)
           tokens == getTokenCountsFromResponse(req[r].path, p.rw.body)
           data == NewMetricsData(req[r].key, details[r], tokens)
       IN
       /\ backendOut' = [backendOut EXCEPT ![r] = out]
       /\ rw' = [rw EXCEPT ![r] = p.rw]
       /\ client' = [client EXCEPT ![r] = p.w]
       /\ logs' = [logs EXCEPT ![r] =
                     @ \o (IF out.err THEN <<LogLine("ReverseProxy", "ERROR", NoLogFields)>> ELSE <<>>)
                       \o <<RequestLog(p.rw.statusCode, LogFields(req[r].key, req[r].path))>>]
       /\ metrics' = [metrics EXCEPT ![r] = data]
       /\ mtask' = [mtask EXCEPT ![r] = goSendMetrics(r, data)]
       /\ events' = [events EXCEPT ![r] = @ \o CompletionSteps]
       /\ pc' = [pc EXCEPT ![r] = Returned]
  /\ UNCHANGED <<req, details, valOut, backendHangs, valHangs, calls, verdict, proxyOnce, reverseProxy,
                 unitVars>>

\* The forwarder returns with one of the answers of BackendOutcomes.
BackendReturn(r) == BackendReturnFrom(r, BackendOutcomes)

(***************************************************************************)
(* sendMetrics, run as a goroutine of its own.                             *)
(***************************************************************************)
\* The goroutine runs up to client.Do: the metrics POST is on its way.
MetricsSend(r) ==
  /\ mtask[r] = "spawned"
  /\ mtask' = [mtask EXCEPT ![r] = "posting"]
  /\ calls' = [calls EXCEPT ![r] = Called(@, "metrics")]
  /\ UNCHANGED <<pc, req, details, valOut, backendOut, backendHangs, valHangs, rw, client, logs,
                 events, verdict, metrics, proxyOnce, reverseProxy, unitVars>>

\* Mutant of MetricsReturn: a failed POST is sent again.
MetricsReturnRetry(r) ==
  /\ mtask[r] = "posting"
  /\ \E out \in MetricsOutcomes :
       /\ logs' = [logs EXCEPT ![r] =
                     @ \o (IF out.err THEN <<LogLine("sendMetrics", "ERROR", metricsFields(metrics[r]))>>
                           ELSE IF out.status # StatusOK
                           THEN <<LogLine("sendMetrics", "WARNING", metricsFields(metrics[r]))>>
                           ELSE <<>>)]
       /\ mtask' = [mtask EXCEPT ![r] = IF out.err THEN "spawned" ELSE "finished"]
  /\ UNCHANGED <<pc, req, details, valOut, backendOut, backendHangs, valHangs, rw, client, calls,
                 events, verdict, metrics, proxyOnce, reverseProxy, unitVars>>

\* Mutant of MetricsReturn: a failed POST is reported to the caller as an
\* error of the request.
MetricsReturnFailsRequest(r) ==
  /\ mtask[r] = "posting"
  /\ \E out \in MetricsOutcomes :
       /\ logs' = [logs EXCEPT ![r] =
                     @ \o (IF out.err THEN <<LogLine("sendMetrics", "ERROR", metricsFields(metrics[r]))>>
                           ELSE IF out.status # StatusOK
                           THEN <<LogLine("sendMetrics", "WARNING", metricsFields(metrics[r]))>>
                           ELSE <<>>)]
       /\ client' = [client EXCEPT ![r] =
                       IF out.err THEN HttpError(@, "metrics", StatusBadGateway) ELSE @]
  /\ mtask' = [mtask EXCEPT ![r] = "finished"]
  /\ UNCHANGED <<pc, req, details, valOut, backendOut, backendHangs, valHangs, rw, calls,
                 events, verdict, metrics, proxyOnce, reverseProxy, unitVars>>

\* client.Do ends; a failure is logged and the goroutine returns.
MetricsReturn(r) ==
  /\ mtask[r] = "posting"
  /\ \E out \in MetricsOutcomes :
       logs' = [logs EXCEPT ![r] =
                  @ \o (IF out.err THEN <<LogLine("sendMetrics", "ERROR", metricsFields(metrics[r]))>>
                        ELSE IF out.status # StatusOK
                        THEN <<LogLine("sendMetrics", "WARNING", metricsFields(metrics[r]))>>
                        ELSE <<>>)]
  /\ mtask' = [mtask EXCEPT ![r] = "finished"]
  /\ UNCHANGED <<pc, req, details, valOut, backendOut, backendHangs, valHangs, rw, client, calls,
                 events, verdict, metrics, proxyOnce, reverseProxy, unitVars>>

Next ==
  \E r \in Reqs :
    \/ Receive(r)
    \/ ValidationReturn(r)
    \/ BackendReturn(r)
    \/ MetricsSend(r)
    \/ MetricsReturn(r)

Spec == Init /\ [][Next]_vars

\* The handler goroutines alone.  The sendMetrics goroutines read and write
\* nothing a handler reads, so what holds of the handlers here holds of them
\* in Spec.
HandlerNext ==
  \E r \in Reqs :
    \/ Receive(r)
    \/ ValidationReturn(r)
    \/ BackendReturn(r)

\* A handler blocked in validateRequest goes on: the call ends, by the 10 s
\* timeout of its client at the latest.  A handler blocked in the forwarder
\* goes on when the round trip to the backend ends, which it does unless the
\* backend never answers.
HandlerFairSpec ==
  /\ Init
  /\ [][HandlerNext]_vars
  /\ \A r \in Reqs : WF_vars(ValidationReturn(r)) /\ WF_vars(BackendReturn(r))

\* The whole server under the same scheduling: the sendMetrics goroutines run
\* too, and their call ends by the same client timeout.
FairSpec ==
  /\ Spec
  /\ \A r \in Reqs :
       /\ WF_vars(ValidationReturn(r))
       /\ WF_vars(BackendReturn(r))
       /\ WF_vars(MetricsSend(r))
       /\ WF_vars(MetricsReturn(r))

\* proxyHandler is entered with any path and any body.
ReceiveAny(r) == ReceiveFrom(r, AnyInbound)

\* The forwarder returns with any answer.
BackendReturnAny(r) == BackendReturnFrom(r, AnyBackendOutcomes)

\* One request with any path and any body, through the whole pipeline.
SingleNext ==
  \/ ReceiveAny(1)
  \/ ValidationReturn(1)
  \/ BackendReturnAny(1)
  \/ MetricsSend(1)
  \/ MetricsReturn(1)

SingleSpec == Init /\ [][SingleNext]_vars

\* One request up to the return of validateRequest, with a validation service
\* that may stay silent.  The handler's goroutine keeps running, so client.Do
\* returns once it can.
TimeoutNext ==
  \/ ReceiveAny(1)
  \/ ValidationSilent(1)
  \/ ValidationReturn(1)

TimeoutSpec ==
  /\ Init
  /\ [][TimeoutNext]_vars
  /\ WF_vars(ValidationReturn(1))

(***************************************************************************)
(* getReverseProxy, step by step.  Each handler that got past validation   *)
(* calls it; proxyOnce.Do(f) is sync.Once: a load of the done flag, and    *)
(* when it is unset the mutex, a second look at the flag, f, the store of  *)
(* the flag and the unlock.  After Do the caller reads reverseProxy.       *)
(***************************************************************************)
\* Mutant of LockFree: the callers do not exclude each other.
LockIgnored(m) == TRUE

\* o.m.Lock() goes through when no caller holds the mutex.
LockFree(m) == m = 0

\* One caller moves to a new position.
OnceAt(c, position) == [once EXCEPT !.at[c] = position]

\* if o.done.Load() == 0 { o.doSlow(f) }
OnceLoad(c) ==
  /\ once.at[c] = "call"
  /\ once' = IF proxyOnce
             THEN OnceAt(c, "return")
             ELSE [OnceAt(c, "lock") EXCEPT !.slow[c] = TRUE]
  /\ UNCHANGED <<requestVars, proxyOnce, reverseProxy, startup, director, config, ids, replay, sideVars>>

\* o.m.Lock(); if o.done.Load() == 0 { defer o.done.Store(1); f() }
OnceLock(c) ==
  /\ once.at[c] = "lock"
  /\ LockFree(once.m)
  /\ once' = [OnceAt(c, IF proxyOnce THEN "unlock" ELSE "f") EXCEPT !.m = c]
  /\ UNCHANGED <<requestVars, proxyOnce, reverseProxy, startup, director, config, ids, replay, sideVars>>

\* f: url.Parse(ollamaURL), log.Fatalf when it fails, else the forwarder is
\* built and assigned to reverseProxy.
OnceBuild(c) ==
  /\ once.at[c] = "f"
  /\ IF once.urlOK
     THEN /\ reverseProxy' = "forwarder"
          /\ once' = [OnceAt(c, "store") EXCEPT !.built = @ + 1]
     ELSE /\ once' = [once EXCEPT !.at = [d \in Callers |-> "exited"]]
          /\ UNCHANGED reverseProxy
  /\ UNCHANGED <<requestVars, proxyOnce, startup, director, config, ids, replay, sideVars>>

\* The deferred o.done.Store(1) and o.m.Unlock().
OnceStore(c) ==
  /\ once.at[c] = "store"
  /\ proxyOnce' = TRUE
  /\ once' = [OnceAt(c, "return") EXCEPT !.m = 0]
  /\ UNCHANGED <<requestVars, reverseProxy, startup, director, config, ids, replay, sideVars>>

\* The deferred o.m.Unlock() of a caller that found the flag set.
OnceUnlock(c) ==
  /\ once.at[c] = "unlock"
  /\ once' = [OnceAt(c, "return") EXCEPT !.m = 0]
  /\ UNCHANGED <<requestVars, proxyOnce, reverseProxy, startup, director, config, ids, replay, sideVars>>

\* return reverseProxy
OnceReturn(c) ==
  /\ once.at[c] = "return"
  /\ once' = [OnceAt(c, "returned") EXCEPT !.got[c] = reverseProxy]
  /\ UNCHANGED <<requestVars, proxyOnce, reverseProxy, startup, director, config, ids, replay, sideVars>>

\* Every handler is about to call getReverseProxy; OLLAMA_URL parses or not.
OnceInit ==
  /\ RequestsInit
  /\ config = Configured
  /\ ids = NoIds
  /\ replay = NoReplay
  /\ capture = NoCapture
  /\ outbound = NoOutbound
  /\ target = NoTarget
  /\ startup = Listening
  /\ director = NoDirector
  /\ \E u \in BOOLEAN :
       once = [OnceIdle EXCEPT !.urlOK = u, !.at = [c \in Callers |-> "call"]]

OnceNext ==
  \E c \in Callers :
    \/ OnceLoad(c)
    \/ OnceLock(c)
    \/ OnceBuild(c)
    \/ OnceStore(c)
    \/ OnceUnlock(c)
    \/ OnceReturn(c)

OnceSpec == OnceInit /\ [][OnceNext]_vars

(***************************************************************************)
(* main, from validateExternalServices to the listener.  The three probes  *)
(* run one after the other; each is a GET that ends with a transport error *)
(* or a status.                                                            *)
(***************************************************************************)
\* What a probe can end with.
ProbeOutcomes ==
  {TransportError} \cup
  {Response(status, <<>>) : status \in {StatusOK, StatusUnauthorized, StatusNotFound}}

\* Mutant of ProbeFails: the status of the answer is not looked at.
ProbeFailsOnErrorOnly(out) == out.err

\* if err != nil {...}; if resp.StatusCode != http.StatusOK {...}
ProbeFails(out) == out.err \/ out.status # StatusOK

\* The error validateExternalServices returns when probe i fails.
ProbeError(i) ==
  CASE i = 1 -> "Ollama service validation failed"
    [] i = 2 -> "External validation service validation failed"
    [] i = 3 -> "External metrics service validation failed"

\* Probe i has ended: validateExternalServices returns its error, or goes on
\* to the position `onward`.
Probe(i, onward) ==
  startup' = IF ProbeFails(startup.env[i])
             THEN [startup EXCEPT !.probed = Append(@, Probes[i]),
                                  !.err = ProbeError(i), !.at = "checked"]
             ELSE [startup EXCEPT !.probed = Append(@, Probes[i]), !.at = onward]

\* validateOllamaService
ProbeOllama ==
  /\ startup.at = "main"
  /\ Probe(1, "validation")
  /\ UNCHANGED <<requestVars, proxyOnce, reverseProxy, once, director, config, ids, replay, sideVars>>

\* validateExternalValidationService
ProbeValidation ==
  /\ startup.at = "validation"
  /\ Probe(2, "metrics")
  /\ UNCHANGED <<requestVars, proxyOnce, reverseProxy, once, director, config, ids, replay, sideVars>>

\* validateExternalMetricsService; after it validateExternalServices returns nil.
ProbeMetrics ==
  /\ startup.at = "metrics"
  /\ Probe(3, "checked")
  /\ UNCHANGED <<requestVars, proxyOnce, reverseProxy, once, director, config, ids, replay, sideVars>>

\* main: logger.Error and os.Exit(1) when validateExternalServices failed.
MainExit ==
  /\ startup.at = "checked"
  /\ startup.err # ""
  /\ startup' = [startup EXCEPT !.at = "exited", !.exit = 1]
  /\ UNCHANGED <<requestVars, proxyOnce, reverseProxy, once, director, config, ids, replay, sideVars>>

\* main: http.HandleFunc and http.ListenAndServe, which binds the port or
\* fails, and then main exits too.
MainListen ==
  /\ startup.at = "checked"
  /\ startup.err = ""
  /\ \E bound \in BOOLEAN :
       startup' = IF bound
                  THEN [startup EXCEPT !.at = "listening"]
                  ELSE [startup EXCEPT !.at = "exited", !.exit = 1]
  /\ UNCHANGED <<requestVars, proxyOnce, reverseProxy, once, director, config, ids, replay, sideVars>>

\* main is about to call validateExternalServices; each service will answer
\* its probe in one of the ways of ProbeOutcomes.
StartupInit ==
  /\ RequestsInit
  /\ config = Configured
  /\ ids = NoIds
  /\ replay = NoReplay
  /\ capture = NoCapture
  /\ outbound = NoOutbound
  /\ target = NoTarget
  /\ once = OnceIdle
  /\ director = NoDirector
  /\ \E env \in [1..3 -> ProbeOutcomes] :
       startup = [at |-> "main", env |-> env, err |-> "", probed |-> <<>>, exit |-> 0]

StartupNext ==
  \/ ProbeOllama
  \/ ProbeValidation
  \/ ProbeMetrics
  \/ MainExit
  \/ MainListen

StartupSpec == StartupInit /\ [][StartupNext]_vars

(***************************************************************************)
(* The forwarder's Director.  Here a path and a query are strings taken    *)
(* character by character.                                                 *)
(***************************************************************************)
\* Longest base path and longest inbound path.
MaxLen == 3

PathChars == {"/", "x", "y"}

RECURSIVE Strings(_)
\* The strings over PathChars of length n or less.
Strings(n) ==
  IF n = 0 THEN {<<>>}
  ELSE LET shorter == Strings(n - 1)
       IN  shorter \cup {Append(t, ch) : t \in shorter, ch \in PathChars}

Paths == Strings(MaxLen)

\* Raw queries: none, one parameter, two parameters.
Queries == {<<>>, <<"a", "=", "1">>, <<"b", "=", "2", "&", "c", "=", "3">>}

\* strings.HasPrefix
HasPrefix(str, prefix) ==
  /\ Len(str) >= Len(prefix)
  /\ SubSeq(str, 1, Len(prefix)) = prefix

\* Mutant of singleJoiningSlash: the two are put together as they are.
singleJoiningSlashConcat(a, b) == a \o b

singleJoiningSlash(a, b) ==
  LET aslash == HasSuffix(a, <<"/">>)
      bslash == HasPrefix(b, <<"/">>)
  IN  CASE aslash /\ bslash -> a \o Tail(b)
        [] ~aslash /\ ~bslash -> a \o <<"/">> \o b
        [] OTHER -> a \o b

\* Mutant of DirectorRawQuery: the ampersand is always put in.
DirectorRawQueryAlwaysAmp(targetQuery, reqQuery) ==
  targetQuery \o <<"&">> \o reqQuery

\* if targetURL.RawQuery == "" || req.URL.RawQuery == "" {...} else {...}
DirectorRawQuery(targetQuery, reqQuery) ==
  IF targetQuery = <<>> \/ reqQuery = <<>>
  THEN targetQuery \o reqQuery
  ELSE targetQuery \o <<"&">> \o reqQuery

\* Director: func(req *http.Request)
Director ==
  /\ ~director.ran
  /\ director' = [director EXCEPT
                    !.path = singleJoiningSlash(director.a, director.b),
                    !.query = DirectorRawQuery(director.tq, director.rq),
                    !.ran = TRUE]
  /\ UNCHANGED <<requestVars, proxyOnce, reverseProxy, once, startup, config, ids, replay, sideVars>>

\* A target URL with path a and query tq, an inbound request with path b and
\* query rq.
DirectorInit ==
  /\ RequestsInit
  /\ config = Configured
  /\ ids = NoIds
  /\ replay = NoReplay
  /\ capture = NoCapture
  /\ outbound = NoOutbound
  /\ target = NoTarget
  /\ once = OnceIdle
  /\ startup = Listening
  /\ \E a \in Paths, b \in Paths, tq \in Queries, rq \in Queries :
       director = [NoDirector EXCEPT !.a = a, !.b = b, !.tq = tq, !.rq = rq]

DirectorNext == Director

DirectorSpec == DirectorInit /\ [][DirectorNext]_vars

(***************************************************************************)
(* loadConfig, run once by main in the environment the process was         *)
(* started in (after godotenv.Load has added the entries of .env).         *)
(***************************************************************************)
\* What one string-valued variable can be at start: not set, set to the
\* empty string, set to a value.
EnvOf(v) == {Unset, SetTo(""), SetTo(v)}

\* The environments the process is started in.
Envs ==
  [OLLAMA_URL : EnvOf("http://test-ollama:11434"),
   EXTERNAL_VALIDATION_URL : EnvOf("http://test-validation:8080"),
   EXTERNAL_METRICS_URL : EnvOf("http://test-metrics:8080"),
   API_KEY_HEADER_NAME : EnvOf("X-Test-API-Key"),
   PROXY_PORT : EnvOf("9090"),
   EXTERNAL_SERVER_API_KEY : EnvOf("test-server-key"),
   EXTERNAL_SERVER_CERT : EnvOf("/certs/client.pem"),
   SKIP_TLS_VERIFY : {Unset, SetTo(""), SetTo("true"), SetTo("false"), SetTo("TRUE")},
   OLLAMA_HOST : {Unset, SetTo("http://ollama:11434")},
   PORT : {Unset, SetTo("9000")}]

\* main: loadConfig()
LoadConfig ==
  /\ ~config.loaded
  /\ config' = [config EXCEPT !.loaded = TRUE, !.settings = loadConfig(config.env)]
  /\ UNCHANGED <<requestVars, proxyOnce, reverseProxy, once, startup, director, ids, replay, sideVars>>

\* The process has started in one of the environments of Envs; the package
\* variables hold their zero values.
ConfigInit ==
  /\ RequestsInit
  /\ ids = NoIds
  /\ replay = NoReplay
  /\ capture = NoCapture
  /\ outbound = NoOutbound
  /\ target = NoTarget
  /\ once = OnceIdle
  /\ startup = Listening
  /\ director = NoDirector
  /\ \E env \in Envs :
       config = [env |-> env, loaded |-> FALSE, settings |-> ZeroConfig]

ConfigNext == LoadConfig

ConfigSpec == ConfigInit /\ [][ConfigNext]_vars

(***************************************************************************)
(* The X-Request-ID of the outbound calls.  Each caller is one request:    *)
(* its handler prepares the validation POST and, after the backend round   *)
(* trip, its sendMetrics goroutine prepares the metrics POST.  The callers *)
(* run on their own goroutines and read one clock.                         *)
(***************************************************************************)
\* How many times the clock moves on.
MaxTicks == 3

DigitChars == <<"0", "1", "2", "3", "4", "5", "6", "7", "8", "9">>

RECURSIVE FormatInt(_)
\* fmt.Sprintf("%d", n) for n >= 0: the decimal digits, most significant first.
FormatInt(n) ==
  IF n < 10 THEN <<DigitChars[n + 1]>>
  ELSE Append(FormatInt(n \div 10), DigitChars[(n % 10) + 1])

\* time.Now().UnixNano()
UnixNano(now) == now

\* fmt.Sprintf("%d", time.Now().UnixNano())
RequestID(now) == FormatInt(UnixNano(now))

\* The call one caller has prepared for a service.
OutboundCall(c, service, now) ==
  [by |-> c, service |-> service, at |-> now, id |-> RequestID(now)]

\* Time passes.
Tick ==
  /\ ids.now < FirstReading + MaxTicks
  /\ ids' = [ids EXCEPT !.now = @ + 1]
  /\ UNCHANGED <<requestVars, proxyOnce, reverseProxy, once, startup, director, config, replay, sideVars>>

\* validateRequest sets the header of its POST.
ValidationID(c) ==
  /\ ids.made[c] = 0
  /\ ids' = [ids EXCEPT !.made[c] = 1,
                        !.sent = @ \cup {OutboundCall(c, "validation", ids.now)}]
  /\ UNCHANGED <<requestVars, proxyOnce, reverseProxy, once, startup, director, config, replay, sideVars>>

\* sendMetrics sets the header of its POST.  The validation call and the
\* backend round trip of this request lie between the two readings, so the
\* clock has moved on.
MetricsID(c) ==
  /\ ids.made[c] = 1
  /\ \A call \in ids.sent : call.by = c => call.at < ids.now
  /\ ids' = [ids EXCEPT !.made[c] = 2,
                        !.sent = @ \cup {OutboundCall(c, "metrics", ids.now)}]
  /\ UNCHANGED <<requestVars, proxyOnce, reverseProxy, once, startup, director, config, replay, sideVars>>

IdInit ==
  /\ RequestsInit
  /\ config = Configured
  /\ ids = NoIds
  /\ replay = NoReplay
  /\ capture = NoCapture
  /\ outbound = NoOutbound
  /\ target = NoTarget
  /\ once = OnceIdle
  /\ startup = Listening
  /\ director = NoDirector

IdNext ==
  \/ Tick
  \/ \E c \in Callers : ValidationID(c) \/ MetricsID(c)

IdSpec == IdInit /\ [][IdNext]_vars

(***************************************************************************)
(* The request body on its way through proxyHandler: read to the end by    *)
(* io.ReadAll, put back as a buffer over the bytes read, looked at by      *)
(* getModelFromRequest, and sent to the backend by the forwarder, which    *)
(* reads the buffer.  Here a body is taken byte by byte.                   *)
(***************************************************************************)
BodyChars == {"{", "m", "}"}

RECURSIVE ByteStrings(_)
\* The byte strings over BodyChars of length n or less.
ByteStrings(n) ==
  IF n = 0 THEN {<<>>}
  ELSE LET shorter == ByteStrings(n - 1)
       IN  shorter \cup {Append(t, ch) : t \in shorter, ch \in BodyChars}

\* The first n bytes of a byte string, and the rest.
Take(bytes, n) == SubSeq(bytes, 1, n)

Drop(bytes, n) == SubSeq(bytes, n + 1, Len(bytes))

\* Mutant of ReadInto: each chunk is stored over the bytes read so far.
ReadIntoOverwrite(b, chunk) == chunk

\* io.ReadAll: the chunk just read is appended to the bytes read so far.
ReadInto(b, chunk) == b \o chunk

\* bytes.NewBuffer(bodyBytes): a reader over those bytes, from the first.
NewBuffer(bodyBytes) == bodyBytes

\* io.ReadAll: one Read of r.Body gives the next bytes the client sent.
ReadChunk ==
  /\ replay.at = "reading"
  /\ \E n \in 1..Len(replay.unread) :
       replay' = [replay EXCEPT !.bodyBytes = ReadInto(@, Take(replay.unread, n)),
                                !.unread = Drop(@, n)]
  /\ UNCHANGED <<requestVars, proxyOnce, reverseProxy, once, startup, director, config, ids, sideVars>>

\* io.ReadAll: a Read fails; the handler answers 400 and nothing is forwarded.
ReadError ==
  /\ replay.at = "reading"
  /\ replay' = [replay EXCEPT !.at = "failed"]
  /\ UNCHANGED <<requestVars, proxyOnce, reverseProxy, once, startup, director, config, ids, sideVars>>

\* io.ReadAll meets the end of the body;
\* r.Body = io.NopCloser(bytes.NewBuffer(bodyBytes)).
ReadEOF ==
  /\ replay.at = "reading"
  /\ replay.unread = <<>>
  /\ replay' = [replay EXCEPT !.buffer = NewBuffer(replay.bodyBytes), !.at = "buffered"]
  /\ UNCHANGED <<requestVars, proxyOnce, reverseProxy, once, startup, director, config, ids, sideVars>>

\* getModelFromRequest(r.URL.Path, bodyBytes) and validateRequest(details):
\* json.Unmarshal reads bodyBytes and leaves them as they are.
ExtractModel ==
  /\ replay.at = "buffered"
  /\ replay' = [replay EXCEPT !.at = "forwarding"]
  /\ UNCHANGED <<requestVars, proxyOnce, reverseProxy, once, startup, director, config, ids, sideVars>>

\* proxy.ServeHTTP: the transport reads the next bytes of r.Body and writes
\* them to the backend.
ForwardChunk ==
  /\ replay.at = "forwarding"
  /\ \E n \in 1..Len(replay.buffer) :
       replay' = [replay EXCEPT !.received = @ \o Take(replay.buffer, n),
                                !.buffer = Drop(@, n)]
  /\ UNCHANGED <<requestVars, proxyOnce, reverseProxy, once, startup, director, config, ids, sideVars>>

\* proxy.ServeHTTP: the buffer is at its end; the backend has the whole body.
ForwardEOF ==
  /\ replay.at = "forwarding"
  /\ replay.buffer = <<>>
  /\ replay' = [replay EXCEPT !.at = "done"]
  /\ UNCHANGED <<requestVars, proxyOnce, reverseProxy, once, startup, director, config, ids, sideVars>>

\* A request with a key has arrived; its body is still with the client.
BodyInit ==
  /\ RequestsInit
  /\ config = Configured
  /\ ids = NoIds
  /\ once = OnceIdle
  /\ startup = Listening
  /\ director = NoDirector
  /\ capture = NoCapture
  /\ outbound = NoOutbound
  /\ target = NoTarget
  /\ \E body \in ByteStrings(MaxLen) :
       replay = [NoReplay EXCEPT !.body = body, !.unread = body, !.at = "reading"]

BodyNext ==
  \/ ReadChunk
  \/ ReadError
  \/ ReadEOF
  \/ ExtractModel
  \/ ForwardChunk
  \/ ForwardEOF

BodySpec == BodyInit /\ [][BodyNext]_vars

(***************************************************************************)
(* The responseWriter on its own: any caller, any order of calls.          *)
(***************************************************************************)
\* How many calls are made on one responseWriter.
MaxCalls == 4

\* The chunks handed to Write and the statuses handed to WriteHeader.
Chunks == {"test response", "more"}

Statuses == {StatusOK, StatusNotFound, StatusBadGateway}

\* rw.Write(b)
CallWrite ==
  /\ Len(capture.called) < MaxCalls
  /\ \E b \in Chunks :
       capture' = [p |-> rwWrite(capture.p, b),
                   called |-> Append(capture.called, [op |-> "Write", arg |-> b])]
  /\ UNCHANGED <<requestVars, proxyOnce, reverseProxy, once, startup, director, config, ids,
                 replay, outbound, target>>

\* rw.WriteHeader(statusCode)
CallWriteHeader ==
  /\ Len(capture.called) < MaxCalls
  /\ \E statusCode \in Statuses :
       capture' = [p |-> rwWriteHeader(capture.p, statusCode),
                   called |-> Append(capture.called,
                                     [op |-> "WriteHeader", arg |-> statusCode])]
  /\ UNCHANGED <<requestVars, proxyOnce, reverseProxy, once, startup, director, config, ids,
                 replay, outbound, target>>

\* responseWriter{ResponseWriter: w, body: &bytes.Buffer{}}
WriterInit ==
  /\ RequestsInit
  /\ config = Configured
  /\ ids = NoIds
  /\ replay = NoReplay
  /\ once = OnceIdle
  /\ startup = Listening
  /\ director = NoDirector
  /\ capture = NoCapture
  /\ outbound = NoOutbound
  /\ target = NoTarget

WriterNext == CallWrite \/ CallWriteHeader

WriterSpec == WriterInit /\ [][WriterNext]_vars

(***************************************************************************)
(* The messages the process sends, each with the HTTP client it was sent   *)
(* with and the value of its X-API-Key header: the three startup probes,   *)
(* and for each request with a key that validation approves the validation *)
(* POST, the forwarded request, the response and the metrics POST.         *)
(***************************************************************************)
\* The environment of a deployment that has a server-to-server key.
KeyedEnv == [NoEnv EXCEPT !.EXTERNAL_SERVER_API_KEY = SetTo("test-server-key")]

\* getSecureHTTPClient: return &http.Client{...}, a new client on every call.
getSecureHTTPClient(made) == made + 1

\* req.Header.Set("X-API-Key", externalServerAPIKey)
ServerKeyHeader == SetTo(config.settings.externalServerAPIKey)

\* Mutant of DirectorHeader: the forwarder adds the server-to-server key.
DirectorHeaderServerKey(inbound) == ServerKeyHeader

\* The Director rewrites the URL only: the headers of the inbound request go
\* to the backend as they came.
DirectorHeader(inbound) == inbound

\* A message: where it goes, for whom (0: main), the client it was sent with
\* (0: none, the forwarder's transport or the server's connection) and its
\* X-API-Key header.
Message(to, method, by, clientId, apiKey) ==
  [to |-> to, method |-> method, by |-> by, client |-> clientId, apiKey |-> apiKey]

\* One more message sent with a newly constructed client.
SentWithNewClient(to, method, by, apiKey) ==
  [outbound EXCEPT
     !.made = getSecureHTTPClient(@),
     !.sent = @ \cup {Message(to, method, by, getSecureHTTPClient(outbound.made), apiKey)}]

\* validateOllamaService: client.Get(ollamaURL + "/api/tags")
OllamaProbeCall ==
  /\ outbound.at = "main"
  /\ outbound' = [SentWithNewClient("ollama", "GET", 0, Unset) EXCEPT !.at = "ollama"]
  /\ UNCHANGED <<requestVars, proxyOnce, reverseProxy, once, startup, director, config, ids,
                 replay, capture, target>>

\* validateExternalValidationService: GET externalValidationURL
ValidationProbeCall ==
  /\ outbound.at = "ollama"
  /\ outbound' = [SentWithNewClient("validation", "GET", 0, ServerKeyHeader)
                    EXCEPT !.at = "validation"]
  /\ UNCHANGED <<requestVars, proxyOnce, reverseProxy, once, startup, director, config, ids,
                 replay, capture, target>>

\* validateExternalMetricsService: GET externalMetricsURL; main goes on to listen.
MetricsProbeCall ==
  /\ outbound.at = "validation"
  /\ outbound' = [SentWithNewClient("metrics", "GET", 0, ServerKeyHeader)
                    EXCEPT !.at = "listening"]
  /\ UNCHANGED <<requestVars, proxyOnce, reverseProxy, once, startup, director, config, ids,
                 replay, capture, target>>

\* validateRequest: POST externalValidationURL
ValidationCall(c) ==
  /\ outbound.at = "listening"
  /\ outbound.stage[c] = "idle"
  /\ outbound' = [SentWithNewClient("validation", "POST", c, ServerKeyHeader)
                    EXCEPT !.stage[c] = "validated"]
  /\ UNCHANGED <<requestVars, proxyOnce, reverseProxy, once, startup, director, config, ids,
                 replay, capture, target>>

\* proxy.ServeHTTP: the inbound request, with the caller's key in its
\* X-API-Key header, goes to the backend.
BackendCall(c) ==
  /\ outbound.stage[c] = "validated"
  /\ outbound' = [outbound EXCEPT
                    !.stage[c] = "forwarded",
                    !.sent = @ \cup {Message("backend", "POST", c, 0,
                                             DirectorHeader(SetTo("test-api-key")))}]
  /\ UNCHANGED <<requestVars, proxyOnce, reverseProxy, once, startup, director, config, ids,
                 replay, capture, target>>

\* proxy.ServeHTTP: the backend's answer goes to the caller.
CallerResponse(c) ==
  /\ outbound.stage[c] = "forwarded"
  /\ outbound' = [outbound EXCEPT
                    !.stage[c] = "answered",
                    !.sent = @ \cup {Message("caller", "response", c, 0, Unset)}]
  /\ UNCHANGED <<requestVars, proxyOnce, reverseProxy, once, startup, director, config, ids,
                 replay, capture, target>>

\* sendMetrics: POST externalMetricsURL
MetricsCall(c) ==
  /\ outbound.stage[c] = "answered"
  /\ outbound' = [SentWithNewClient("metrics", "POST", c, ServerKeyHeader)
                    EXCEPT !.stage[c] = "reported"]
  /\ UNCHANGED <<requestVars, proxyOnce, reverseProxy, once, startup, director, config, ids,
                 replay, capture, target>>

\* main has loaded its configuration and is about to probe the services.
OutboundInit ==
  /\ RequestsInit
  /\ config = [env |-> KeyedEnv, loaded |-> TRUE, settings |-> loadConfig(KeyedEnv)]
  /\ ids = NoIds
  /\ replay = NoReplay
  /\ once = OnceIdle
  /\ startup = Listening
  /\ director = NoDirector
  /\ capture = NoCapture
  /\ outbound = NoOutbound
  /\ target = NoTarget

OutboundNext ==
  \/ OllamaProbeCall
  \/ ValidationProbeCall
  \/ MetricsProbeCall
  \/ \E c \in Callers :
       \/ ValidationCall(c)
       \/ BackendCall(c)
       \/ CallerResponse(c)
       \/ MetricsCall(c)

OutboundSpec == OutboundInit /\ [][OutboundNext]_vars

(***************************************************************************)
(* The backend target of the forwarder.  ollamaURL is a package variable:  *)
(* loadConfig sets it and the tests assign it again before each case.      *)
(***************************************************************************)
\* url.Parse of the values ollamaURL takes: scheme and host, or an error.
ParsedURLs ==
  [u \in {"http://localhost:11434", "http://test-ollama:11434", "https://ollama.internal",
          "http://127.0.0.1:40001", "://bad"} |->
     CASE u = "http://localhost:11434" -> [err |-> FALSE, scheme |-> "http", host |-> "localhost:11434"]
       [] u = "http://test-ollama:11434" -> [err |-> FALSE, scheme |-> "http", host |-> "test-ollama:11434"]
       [] u = "https://ollama.internal" -> [err |-> FALSE, scheme |-> "https", host |-> "ollama.internal"]
       [] u = "http://127.0.0.1:40001" -> [err |-> FALSE, scheme |-> "http", host |-> "127.0.0.1:40001"]
       [] OTHER -> [err |-> TRUE, scheme |-> "", host |-> ""]]

urlParse(u) == ParsedURLs[u]

\* Mutant of DirectorTarget: the Director parses ollamaURL on every request.
DirectorTargetLive(t) ==
  [scheme |-> urlParse(t.ollamaURL).scheme, host |-> urlParse(t.ollamaURL).host]

\* Director: req.URL.Scheme = targetURL.Scheme; req.URL.Host = targetURL.Host,
\* with the targetURL of the closure.
DirectorTarget(t) == t.targetURL

\* ollamaURL = ...: the configured backend URL is assigned again.
SetOllamaURL ==
  /\ target.at = "serving"
  /\ \E u \in DOMAIN ParsedURLs : target' = [target EXCEPT !.ollamaURL = u]
  /\ UNCHANGED <<requestVars, proxyOnce, reverseProxy, once, startup, director, config, ids,
                 replay, capture, outbound>>

\* proxy := getReverseProxy(); proxy.ServeHTTP(responseWriter, r): the first
\* call parses ollamaURL and builds the forwarder, or ends the process with
\* log.Fatalf; every call sends the request where the Director says.
ForwardRequest ==
  /\ target.at = "serving"
  /\ LET first == ~target.proxyOnce
         parsed == urlParse(target.ollamaURL)
         built == IF first
                  THEN [target EXCEPT !.proxyOnce = TRUE,
                                      !.first = target.ollamaURL,
                                      !.targetURL = [scheme |-> parsed.scheme,
                                                     host |-> parsed.host]]
                  ELSE target
     IN  IF first /\ parsed.err
         THEN target' = [target EXCEPT !.at = "exited"]
         ELSE target' = [built EXCEPT
                           !.forwarded = @ \cup {[to |-> DirectorTarget(built),
                                                  configured |-> target.ollamaURL]}]
  /\ UNCHANGED <<requestVars, proxyOnce, reverseProxy, once, startup, director, config, ids,
                 replay, capture, outbound>>

TargetInit ==
  /\ RequestsInit
  /\ config = Configured
  /\ ids = NoIds
  /\ replay = NoReplay
  /\ once = OnceIdle
  /\ startup = Listening
  /\ director = NoDirector
  /\ capture = NoCapture
  /\ outbound = NoOutbound
  /\ target = NoTarget

TargetNext == SetOllamaURL \/ ForwardRequest

TargetSpec == TargetInit /\ [][TargetNext]_vars

(***************************************************************************)
(* Properties.                                                             *)
(***************************************************************************)
NoCalls == [validation |-> 0, backend |-> 0, metrics |-> 0]

IsPrefix(s, t) == Len(s) <= Len(t) /\ SubSeq(t, 1, Len(s)) = s

Contains(s, e) == \E i \in 1..Len(s) : s[i] = e

LinesBy(r, by) == Len(SelectSeq(logs[r], LAMBDA l : l.by = by))

\* The validation call ended with a 200 response that decodes to this verdict.
Answered(r, valid, rateLimited) ==
  /\ verdict[r] # "pending"
  /\ valOut[r] = Response(StatusOK, Verdict(valid, rateLimited))

\* C1: a request whose API-key header is absent or empty is answered 401 and
\* causes no validation call, no backend call and no metrics call.
C1_MissingKeyRejected ==
  \A r \in Reqs :
    (pc[r] # "idle" /\ req[r].key = "") =>
      /\ pc[r] = "done"
      /\ client[r].headers = 1
      /\ client[r].status = StatusUnauthorized
      /\ calls[r] = NoCalls
      /\ mtask[r] = "none"

C1_Witness ==
  \E r \in Reqs : pc[r] = "done" /\ req[r].key = "" /\ client[r].status = StatusUnauthorized

C4_ApprovedIff ==
  \A r \in Reqs :
    verdict[r] # "pending" =>
      (verdict[r] = "approved" <=>
         /\ ~valOut[r].err
         /\ valOut[r].status = StatusOK
         /\ DecodeOK(valOut[r].body, ValidationResponse)
         /\ Fields(valOut[r].body[1]).valid.b = TRUE
         /\ Fields(valOut[r].body[1]).rateLimited.b = FALSE)

C4_Witness ==
  \E r \in Reqs :
    /\ verdict[r] = "denied"
    /\ valOut[r] = Response(StatusBadRequest, Verdict(TRUE, FALSE))

\* C5: when the validation service marks a request that carries an API key as
\* rate limited, proxyHandler responds 429 Too Many Requests.
C5_RateLimited429 ==
  \A r \in Reqs :
    (req[r].key # "" /\ Answered(r, TRUE, TRUE) /\ pc[r] = "done") =>
      client[r].status = StatusTooManyRequests

\* C6: proxyHandler responds 400 to a POST /api/chat that carries an API key
\* and a readable JSON body which is not a chat request, and does not forward
\* it to the backend (the validation service approving, as in the test).
C6_InvalidBody400 ==
  \A r \in Reqs :
    (/\ pc[r] = "done"
     /\ req[r].key # ""
     /\ req[r].path = <<"api", "chat">>
     /\ req[r].body = InvalidBody
     /\ verdict[r] = "approved") =>
      /\ client[r].status = StatusBadRequest
      /\ calls[r].backend = 0

\* The order of section 4.1: the steps of one request.
PipelineOrder ==
  <<"keyCheck", "bodyRead", "modelExtract", "validationCall", "validationReturn",
    "backendCall", "backendReturn", "tokenExtract", "completionLog", "metricsDispatch">>

\* C7: within one request the steps run in the fixed order key check, body
\* read, model extraction, validation call, backend call, token extraction,
\* completion log, metrics dispatch; the backend call starts only after the
\* validation call returned approved, and token extraction only after the
\* backend call has completed.
C7_PipelineOrder ==
  \A r \in Reqs :
    /\ IsPrefix(events[r], PipelineOrder)
    /\ Contains(events[r], "validationCall") <=> calls[r].validation > 0
    /\ Contains(events[r], "backendCall") <=> calls[r].backend > 0
    /\ Contains(events[r], "backendCall") =>
         /\ verdict[r] = "approved"
         /\ Answered(r, TRUE, FALSE)
    /\ Contains(events[r], "tokenExtract") =>
         /\ Contains(events[r], "backendReturn")
         /\ backendOut[r] \in BackendOutcomes
         /\ rw[r].statusCode # 0
    /\ Contains(events[r], "metricsDispatch") <=> mtask[r] # "none"
    /\ mtask[r] # "none" => LinesBy(r, "proxyHandler") = 1

C7_Witness ==
  \E r \in Reqs : events[r] = PipelineOrder /\ mtask[r] = "posting"

\* C8: for every inbound request the proxy issues at most one validation POST,
\* at most one backend call and at most one metrics POST; a failed call is not
\* retried.
C8_AtMostOneCall ==
  \A r \in Reqs :
    /\ calls[r].validation <= 1
    /\ calls[r].backend <= 1
    /\ calls[r].metrics <= 1
    /\ (verdict[r] = "denied" => pc[r] = "done" /\ calls[r].validation = 1)
    /\ (backendOut[r].err => pc[r] = "done" /\ calls[r].backend = 1)

C8_Witness ==
  \E r \in Reqs :
    /\ backendOut[r].err
    /\ mtask[r] = "finished"
    /\ LinesBy(r, "sendMetrics") = 1
    /\ calls[r] = [validation |-> 1, backend |-> 1, metrics |-> 1]

\* C9, as stated: every inbound request eventually produces exactly one HTTP
\* response, also when the backend never answers.
C9_AlwaysResponds ==
  /\ [](\A r \in Reqs : client[r].headers <= 1)
  /\ \A r \in Reqs : (pc[r] # "idle") ~> (client[r].headers = 1)

\* C9, amended: a request never gets two responses, a handler that has
\* returned has written exactly one, and every inbound request eventually gets
\* its response unless it is blocked in the forwarder on a backend that never
\* answers.
C9_RespondsUnlessBackendHangs ==
  /\ [](\A r \in Reqs : /\ client[r].headers <= 1
                        /\ pc[r] = "done" => client[r].headers = 1
                        /\ pc[r] # "done" => client[r].headers = 0)
  /\ \A r \in Reqs :
       (pc[r] # "idle") ~> (client[r].headers = 1 \/ (pc[r] = "proxying" /\ backendHangs[r]))

C9_Witness ==
  \E r \in Reqs : pc[r] = "done" /\ backendOut[r].err /\ client[r].status = StatusBadGateway

\* The validation call failed: transport error, non-200 status or a body that
\* does not decode.
ValidationFailed(r) ==
  /\ verdict[r] # "pending"
  /\ \/ valOut[r].err
     \/ valOut[r].status # StatusOK
     \/ ~DecodeOK(valOut[r].body, ValidationResponse)

\* C10, as stated: exactly one log line is written per request on every path
\* through the pipeline, also for a request denied because the validation
\* call failed.
C10_OneLogLine ==
  \A r \in Reqs :
    pc[r] = "done" => LinesBy(r, "proxyHandler") + LinesBy(r, "validateRequest") = 1

\* C10, amended: proxyHandler itself writes exactly one line per request on
\* every path; validateRequest writes one more when the validation call
\* failed and none for a valid=false or rateLimited=true verdict; the
\* forwarder writes one more when the backend round trip failed.
C10_OneHandlerLine ==
  \A r \in Reqs :
    /\ pc[r] = "done" => LinesBy(r, "proxyHandler") = 1
    /\ pc[r] # "done" => LinesBy(r, "proxyHandler") = 0
    /\ LinesBy(r, "validateRequest") = IF ValidationFailed(r) THEN 1 ELSE 0
    /\ LinesBy(r, "ReverseProxy") = IF backendOut[r].err THEN 1 ELSE 0

C10_Witness ==
  \E r \in Reqs :
    /\ pc[r] = "done"
    /\ valOut[r].err
    /\ LinesBy(r, "proxyHandler") = 1
    /\ LinesBy(r, "validateRequest") = 1

\* C11: the handler returns without waiting for the metrics call: whenever the
\* sendMetrics goroutine of a request has been started and has not ended, the
\* handler of that request has already returned and its answer has been given.
C11_HandlerDoesNotWait ==
  \A r \in Reqs :
    mtask[r] \in {"spawned", "posting"} =>
      /\ pc[r] = "done"
      /\ client[r].headers = 1

C11_Witness ==
  \E r \in Reqs :
    /\ pc[r] = "done"
    /\ mtask[r] = "posting"
    /\ calls[r].metrics = 1

\* What the caller has once the forwarder has returned with `out`.
Delivered(r) ==
  /\ client[r].headers = 1
  /\ IF backendOut[r].err
     THEN client[r].status = StatusBadGateway
     ELSE /\ client[r].status = backendOut[r].status
          /\ client[r].body = backendOut[r].body

\* C12: the metrics POST is never issued before the backend's response has
\* been written to the caller in full: a request with a metrics call has the
\* forwarder's return among its steps and the whole answer in its writer.
C12_MetricsAfterResponse ==
  \A r \in Reqs :
    (mtask[r] # "none" \/ calls[r].metrics > 0) =>
      /\ Contains(events[r], "backendReturn")
      /\ Delivered(r)

C12_Witness ==
  \E r \in Reqs :
    /\ calls[r].metrics = 1
    /\ client[r].body = ChatAnswer
    /\ client[r].status = StatusOK

\* C13: a step of the sendMetrics goroutine leaves the caller's status and
\* body and the handler as they were, and the goroutine's POST ends in the
\* goroutine returning, whatever the outcome of the POST.
C13_MetricsOutcomeHarmless ==
  [][\A r \in Reqs :
       (mtask[r] # "none" /\ mtask'[r] # mtask[r]) =>
         /\ client'[r] = client[r]
         /\ pc'[r] = pc[r]
         /\ (mtask[r] = "posting" => mtask'[r] = "finished")]_vars

C13_Witness ==
  \E r \in Reqs :
    /\ mtask[r] = "finished"
    /\ Contains(logs[r], LogLine("sendMetrics", "ERROR", metricsFields(metrics[r])))
    /\ client[r].status = StatusOK
    /\ client[r].body = ChatAnswer

RECURSIVE TotalCalls(_, _)
\* The calls to one service made for the requests of a set.
TotalCalls(S, service) ==
  IF S = {} THEN 0
  ELSE LET q == CHOOSE x \in S : TRUE
       IN  calls[q][service] + TotalCalls(S \ {q}, service)

\* The approved requests equal to request r whose handler has returned.
SameAs(r) ==
  {q \in Reqs : req[q] = req[r] /\ verdict[q] = "approved" /\ pc[q] = "done"}

\* C14: n equal approved requests cause n validation calls, n backend calls
\* and n metrics reports: each of them has its own goroutine, and as many
\* metrics POSTs were sent as goroutines got to sending.
C14_NoDeduplication ==
  \A r \in Reqs :
    LET S == SameAs(r) IN
    /\ TotalCalls(S, "validation") = Cardinality(S)
    /\ TotalCalls(S, "backend") = Cardinality(S)
    /\ \A q \in S : mtask[q] # "none"
    /\ TotalCalls(S, "metrics") =
         Cardinality({q \in S : mtask[q] \in {"posting", "finished"}})

C14_Witness ==
  \E r, q \in Reqs :
    /\ r # q
    /\ q \in SameAs(r)
    /\ r \in SameAs(r)
    /\ mtask[r] = "finished" /\ mtask[q] = "finished"
    /\ TotalCalls({r, q}, "validation") = 2
    /\ TotalCalls({r, q}, "backend") = 2
    /\ TotalCalls({r, q}, "metrics") = 2

\* C15: the API key, model and endpoint of the metrics report are those of
\* the details sent to the validation service, which are those of the inbound
\* request; the backend's answer changes none of them.
C15_MetricsIdentity ==
  \A r \in Reqs :
    mtask[r] # "none" =>
      /\ metrics[r].apiKey = details[r].apiKey
      /\ metrics[r].model = details[r].model
      /\ metrics[r].endpoint = details[r].endpoint
      /\ details[r].apiKey = req[r].key
      /\ details[r].endpoint = req[r].path
      /\ details[r].model = getModelFromRequest(req[r].path, req[r].body)

C15_Witness ==
  \E r \in Reqs :
    /\ mtask[r] # "none"
    /\ metrics[r].model = "llama2"
    /\ metrics[r].apiKey = "test-api-key"
    /\ metrics[r].endpoint = <<"api", "chat">>
    /\ backendOut[r] = Response(StatusNotFound, <<>>)

\* C16: however many handlers call getReverseProxy at the same time, the
\* forwarder is built once, and every caller that returns got that forwarder:
\* never nil, never a second one.
C16_BuiltOnce ==
  /\ once.built <= 1
  /\ \A c \in Callers :
       once.at[c] = "returned" =>
         /\ once.built = 1
         /\ once.got[c] = "forwarder"
         /\ once.got[c] = reverseProxy

\* Every caller found the flag unset on entry, and every caller has returned.
C16_Witness ==
  \A c \in Callers :
    /\ once.slow[c]
    /\ once.at[c] = "returned"
    /\ once.got[c] = "forwarder"

\* Every probe was answered with 200.
AllProbesOK ==
  \A i \in 1..3 : ~startup.env[i].err /\ startup.env[i].status = StatusOK

\* C17: validateExternalServices returns an error when one of the three
\* probes ends with a transport error or a status other than 200, and nil
\* only when all three answered 200; after an error main never listens.
C17_StartupFailsFast ==
  /\ startup.at \in {"checked", "listening", "exited"} =>
       (startup.err = "" <=> AllProbesOK)
  /\ startup.err # "" => startup.at \in {"checked", "exited"}
  /\ startup.at = "listening" => AllProbesOK
  /\ (startup.at = "exited" /\ startup.err # "") => startup.exit = 1

\* The first two services answer 200, the metrics service 404: main exits.
C17_Witness ==
  /\ startup.at = "exited"
  /\ startup.err = ProbeError(3)
  /\ startup.probed = Probes
  /\ startup.env[1] = Response(StatusOK, <<>>)
  /\ startup.env[2] = Response(StatusOK, <<>>)
  /\ startup.env[3] = Response(StatusNotFound, <<>>)

\* a without its last character when that is a slash.
TrimOneSlashSuffix(a) ==
  IF HasSuffix(a, <<"/">>) THEN SubSeq(a, 1, Len(a) - 1) ELSE a

\* b without its first character when that is a slash.
TrimOneSlashPrefix(b) ==
  IF HasPrefix(b, <<"/">>) THEN Tail(b) ELSE b

RECURSIVE TrimRightSlashes(_)
\* a without the slashes it ends in.
TrimRightSlashes(a) ==
  IF HasSuffix(a, <<"/">>) THEN TrimRightSlashes(SubSeq(a, 1, Len(a) - 1)) ELSE a

RECURSIVE TrimLeftSlashes(_)
\* b without the slashes it starts with.
TrimLeftSlashes(b) ==
  IF HasPrefix(b, <<"/">>) THEN TrimLeftSlashes(Tail(b)) ELSE b

\* C18 as stated: whatever slashes a ends in and b starts with, the joined
\* path has exactly one slash between what a and b hold besides them.
C18_ExactlyOneSlash ==
  director.ran =>
    director.path =
      TrimRightSlashes(director.a) \o <<"/">> \o TrimLeftSlashes(director.b)

\* C18, amended: singleJoiningSlash takes at most one slash off the end of a
\* and one off the start of b and puts one slash between the two; that is
\* exactly one slash at the join when a does not end in two slashes and b does
\* not start with two.
C18_OneSlashPerSide ==
  director.ran =>
    /\ director.path =
         TrimOneSlashSuffix(director.a) \o <<"/">> \o TrimOneSlashPrefix(director.b)
    /\ (/\ ~HasSuffix(director.a, <<"/", "/">>)
        /\ ~HasPrefix(director.b, <<"/", "/">>)) =>
         director.path =
           TrimRightSlashes(director.a) \o <<"/">> \o TrimLeftSlashes(director.b)

C18_Witness ==
  /\ director.ran
  /\ director.a = <<"/", "x", "/">>
  /\ director.b = <<"/", "y">>
  /\ director.path = <<"/", "x", "/", "y">>

\* C19: the forwarded query is base & inbound when both are non-empty, the
\* non-empty one when exactly one is, and empty when both are empty.
C19_QueryMerge ==
  director.ran =>
    director.query =
      CASE director.tq # <<>> /\ director.rq # <<>> ->
             director.tq \o <<"&">> \o director.rq
        [] director.tq # <<>> /\ director.rq = <<>> -> director.tq
        [] director.tq = <<>> /\ director.rq # <<>> -> director.rq
        [] director.tq = <<>> /\ director.rq = <<>> -> <<>>

C19_Witness ==
  /\ director.ran
  /\ director.tq = <<"a", "=", "1">>
  /\ director.rq = <<"b", "=", "2", "&", "c", "=", "3">>
  /\ director.query = <<"a", "=", "1", "&", "b", "=", "2", "&", "c", "=", "3">>

\* The endpoint a path ends in, "" when it is none of the four.
EndpointOf(path) ==
  IF Len(path) >= 2 /\ path[Len(path) - 1] = "api"
       /\ path[Len(path)] \in {"chat", "generate", "embed", "create"}
  THEN path[Len(path)] ELSE ""

\* The model a body names, when the body is one JSON object of the shape of
\* the endpoint's request type; "" otherwise.
ModelNamed(endpoint, body) ==
  CASE body = ChatBody -> "llama2"
    [] body = GenerateBody -> "mistral"
    [] body = EmbedBody -> "nomic-embed"
    [] body = CreateBody -> "custom-model"
    [] body = TextStreamBody /\ endpoint = "embed" -> "llama2"
    [] OTHER -> ""

\* C20: once the handler has read the body, the model of the request details
\* is the model field of the body when the path ends in /api/chat,
\* /api/generate, /api/embed or /api/create and the body is JSON of the
\* matching shape, and the empty string for every other path and every other
\* body; in both cases the handler has gone on to the validation call.
C20_ModelOrEmpty ==
  \A r \in Reqs :
    Contains(events[r], "modelExtract") =>
      /\ details[r].model =
           IF EndpointOf(req[r].path) = "" THEN ""
           ELSE ModelNamed(EndpointOf(req[r].path), req[r].body)
      /\ Contains(events[r], "validationCall")
      /\ calls[r].validation = 1

\* A body that is no JSON on a recognised path: the model is empty and the
\* request went through validation to the backend.
C20_Witness ==
  \E r \in Reqs :
    /\ req[r].path = <<"api", "generate">>
    /\ req[r].body = NotJSON
    /\ details[r].model = ""
    /\ verdict[r] = "approved"
    /\ calls[r].backend = 1
    /\ pc[r] = "done"

\* The counts an answer names for an endpoint, when the answer is one JSON
\* object of the shape of the endpoint's response type; <<0, 0>> otherwise.
TokensNamed(endpoint, body) ==
  CASE endpoint \in {"chat", "generate"} /\ body = ChatAnswer -> <<10, 20>>
    [] endpoint \in {"chat", "generate"} /\ body = GenerateAnswer -> <<15, 25>>
    [] endpoint \in {"chat", "generate"} /\ body = EmbedAnswer -> <<5, 0>>
    [] endpoint = "embed" /\ body \in {ChatAnswer, TextCountAnswer} -> <<10, 0>>
    [] endpoint = "embed" /\ body = GenerateAnswer -> <<15, 0>>
    [] endpoint = "embed" /\ body = EmbedAnswer -> <<5, 0>>
    [] OTHER -> <<0, 0>>

\* C21: the token counts reported for a request are (prompt_eval_count,
\* eval_count) of a parsable answer on a path ending in /api/chat or
\* /api/generate, (prompt_eval_count, 0) on /api/embed, and (0, 0) for every
\* unparsable answer and every other path; the handler goes on to its end in
\* every case.
C21_TokenCounts ==
  \A r \in Reqs :
    Contains(events[r], "tokenExtract") =>
      /\ <<metrics[r].inputTokenLength, metrics[r].outputTokenLength>> =
           IF backendOut[r].err THEN <<0, 0>>
           ELSE TokensNamed(EndpointOf(req[r].path), backendOut[r].body)
      /\ pc[r] = "done"
      /\ mtask[r] # "none"

\* An embed answer on the embed endpoint.
C21_Witness ==
  \E r \in Reqs :
    /\ req[r].path = <<"api", "embed">>
    /\ backendOut[r] = Response(StatusOK, EmbedAnswer)
    /\ metrics[r].inputTokenLength = 5
    /\ metrics[r].outputTokenLength = 0
    /\ mtask[r] # "none"

\* C22: when reading the request body fails the handler answers 400 and
\* returns: no validation call, no backend call, no metrics call.
C22_ReadFailure400 ==
  \A r \in Reqs :
    req[r].readErr =>
      /\ pc[r] = "done"
      /\ client[r].headers = 1
      /\ client[r].status = StatusBadRequest
      /\ calls[r] = NoCalls
      /\ verdict[r] = "pending"
      /\ mtask[r] = "none"

C22_Witness ==
  \E r \in Reqs :
    /\ req[r].readErr
    /\ req[r].key = "test-api-key"
    /\ client[r].status = StatusBadRequest
    /\ client[r].body = <<"Error reading request body">>

\* The causes for which validateRequest returns false.
DenialCauses ==
  {"transport", "status", "decode", "invalid", "rateLimited"}

\* The cause a denied request was denied for, from the outcome of its call.
CauseOf(out) ==
  IF out.err THEN "transport"
  ELSE IF out.status # StatusOK THEN "status"
  ELSE IF out.body = NotJSON THEN "decode"
  ELSE IF out.body \in {Verdict(FALSE, l) : l \in BOOLEAN} THEN "invalid"
  ELSE "rateLimited"

C25_HealthOK ==
  \A r \in Reqs :
    (pc[r] = "done" /\ req[r].path = <<"health">> /\ req[r].key = "") =>
      client[r].status \in 200..299

\* The value a variable gives a setting: its own when set and non-empty.
EnvOr(e, defaultValue) == IF e.set /\ e.value # "" THEN e.value ELSE defaultValue

\* C26: the backend URL is taken from OLLAMA_HOST and the listen port from
\* PORT, with defaults http://localhost:11434 and 8080 when they are unset.
C26_HostAndPort ==
  config.loaded =>
    /\ config.settings.ollamaURL = EnvOr(config.env.OLLAMA_HOST, "http://localhost:11434")
    /\ config.settings.proxyPort = EnvOr(config.env.PORT, "8080")

\* The variable of each string-valued setting, and its default.
SettingVars ==
  [ollamaURL |-> "OLLAMA_URL", externalValidationURL |-> "EXTERNAL_VALIDATION_URL",
   externalMetricsURL |-> "EXTERNAL_METRICS_URL", apiKeyHeaderName |-> "API_KEY_HEADER_NAME",
   proxyPort |-> "PROXY_PORT", externalServerAPIKey |-> "EXTERNAL_SERVER_API_KEY",
   externalServerCert |-> "EXTERNAL_SERVER_CERT"]

SettingDefaults ==
  [ollamaURL |-> "http://localhost:11434",
   externalValidationURL |-> "http://external-server.com/validate",
   externalMetricsURL |-> "http://external-server.com/log_metrics",
   apiKeyHeaderName |-> "X-API-Key", proxyPort |-> "8080",
   externalServerAPIKey |-> "", externalServerCert |-> ""]

\* C27: after loadConfig each setting holds the value of its environment
\* variable when that value is non-empty and its default otherwise (a
\* variable set to the empty string gives the default); the TLS-skip flag is
\* true exactly when the value so chosen, default "false", is "true".
C27_EnvOrDefault ==
  config.loaded =>
    /\ \A k \in DOMAIN SettingVars :
         config.settings[k] = EnvOr(config.env[SettingVars[k]], SettingDefaults[k])
    /\ config.settings.skipTLSVerify = (EnvOr(config.env.SKIP_TLS_VERIFY, "false") = "true")

C27_Witness ==
  /\ config.loaded
  /\ config.env.PROXY_PORT = SetTo("")
  /\ config.settings.proxyPort = "8080"
  /\ config.env.OLLAMA_URL = SetTo("http://test-ollama:11434")
  /\ config.settings.ollamaURL = "http://test-ollama:11434"
  /\ config.env.EXTERNAL_SERVER_API_KEY = Unset
  /\ config.settings.externalServerAPIKey = ""
  /\ config.env.SKIP_TLS_VERIFY = SetTo("true")
  /\ config.settings.skipTLSVerify

\* C24: every outbound validation or metrics call carries an X-Request-ID
\* that no other outbound call carries, calls of concurrent requests included.
C24_UniqueIds ==
  \A a \in ids.sent, b \in ids.sent : a # b => a.id # b.id

\* The lines validateRequest wrote for a request.
ValidationLines(r) == SelectSeq(logs[r], LAMBDA l : l.by = "validateRequest")

\* The fields a line about a request is to carry.
KeyAndEndpoint(r) == [api_key |-> req[r].key, endpoint |-> req[r].path]

C29_SilentValidationDenied ==
  \A r \in Reqs :
    (pc[r] = "validating" /\ valHangs[r])
      ~> (/\ pc[r] = "done"
          /\ valOut[r] = TransportError
          /\ verdict[r] = "denied"
          /\ client[r].status = StatusUnauthorized
          /\ calls[r].backend = 0)

C29_Witness ==
  \E r \in Reqs :
    /\ valHangs[r]
    /\ pc[r] = "done"
    /\ valOut[r] = TransportError
    /\ verdict[r] = "denied"
    /\ client[r] = [headers |-> 1, status |-> StatusUnauthorized,
                    body |-> <<"Unauthorized: Invalid request">>]

\* C30: the request body the backend receives is byte for byte the body the
\* client sent: what has arrived is always the beginning of it, and when the
\* forwarder is done all of it has arrived, in order.
C30_BodyByteForByte ==
  /\ HasPrefix(replay.body, replay.received)
  /\ replay.at = "done" => replay.received = replay.body
  /\ replay.at \in {"buffered", "forwarding", "done"} => replay.bodyBytes = replay.body

C30_Witness ==
  /\ replay.at = "done"
  /\ replay.body = <<"{", "m", "}">>
  /\ replay.received = <<"{", "m", "}">>

\* The arguments of the calls of one operation, in the order of the calls.
RECURSIVE ArgsOf(_, _)
ArgsOf(called, op) ==
  IF called = <<>> THEN <<>>
  ELSE IF Head(called).op = op
       THEN <<Head(called).arg>> \o ArgsOf(Tail(called), op)
       ELSE ArgsOf(Tail(called), op)

\* C31: after any sequence of Write and WriteHeader calls on the wrapper the
\* captured buffer is the concatenation of everything passed to Write, which
\* is also what the underlying writer was given; the recorded status is the
\* last one passed to WriteHeader, and every WriteHeader call was passed on
\* to the underlying writer.
C31_CaptureFaithful ==
  LET written == ArgsOf(capture.called, "Write")
      statuses == ArgsOf(capture.called, "WriteHeader")
      implicit == IF capture.called # <<>> /\ Head(capture.called).op = "Write" THEN 1 ELSE 0
  IN
  /\ capture.p.rw.body = written
  /\ capture.p.w.body = written
  /\ capture.p.rw.statusCode = IF statuses = <<>> THEN 0 ELSE statuses[Len(statuses)]
  /\ capture.p.w.headers = Len(statuses) + implicit
  /\ (Len(statuses) = 1 /\ implicit = 0) => capture.p.w.status = capture.p.rw.statusCode

C31_Witness ==
  /\ capture.called =
       << [op |-> "WriteHeader", arg |-> StatusNotFound], [op |-> "Write", arg |-> "test response"],
          [op |-> "WriteHeader", arg |-> StatusBadGateway], [op |-> "Write", arg |-> "more"] >>
  /\ capture.p.rw.body = <<"test response", "more">>
  /\ capture.p.w.body = <<"test response", "more">>
  /\ capture.p.rw.statusCode = StatusBadGateway

\* C32: one outbound HTTP client is constructed and shared: every validation
\* call, metrics call and startup probe uses the same client instance.
C32_OneSharedClient ==
  /\ outbound.made <= 1
  /\ \A a \in outbound.sent, b \in outbound.sent :
       (a.client # 0 /\ b.client # 0) => a.client = b.client

\* C36: the server-to-server API key is attached to the requests sent to the
\* validation and metrics URLs (POST calls and startup GET probes) and to
\* nothing else: not to a request sent to the backend, not to a response.
C36_ServerKeyOnlyToServices ==
  \A m \in outbound.sent :
    /\ (m.apiKey = SetTo("test-server-key")) <=> (m.to \in {"validation", "metrics"})
    /\ m.to \in {"ollama", "backend", "caller"} => m.apiKey \in {Unset, SetTo("test-api-key")}

C36_Witness ==
  /\ \E m \in outbound.sent :
       m.to = "backend" /\ m.apiKey = SetTo("test-api-key")
  /\ \E m \in outbound.sent : m.to = "caller" /\ m.apiKey = Unset
  /\ \E m \in outbound.sent : m.to = "ollama" /\ m.method = "GET"
  /\ \E m \in outbound.sent :
       m.to = "metrics" /\ m.method = "POST" /\ m.apiKey = SetTo("test-server-key")
  /\ \E m \in outbound.sent :
       m.to = "validation" /\ m.method = "GET" /\ m.apiKey = SetTo("test-server-key")

\* C33: a metrics report is scheduled if and only if validation approved the
\* request: exactly one for every approved request whose backend call has
\* ended, whatever its status (the 502 of an unreachable backend included),
\* and none for a request that ended at a 401 or 400 early exit.
C33_ReportIffApproved ==
  \A r \in Reqs :
    /\ pc[r] = "done" => ((mtask[r] # "none") <=> (verdict[r] = "approved"))
    /\ pc[r] # "done" => (mtask[r] = "none" /\ calls[r].metrics = 0)
    /\ calls[r].metrics = (IF mtask[r] \in {"posting", "finished"} THEN 1 ELSE 0)
    /\ (pc[r] = "done" /\ client[r].status \in {StatusUnauthorized, StatusBadRequest}
          /\ calls[r].backend = 0) => mtask[r] = "none"

C33_Witness ==
  \E r \in Reqs :
    /\ verdict[r] = "approved"
    /\ backendOut[r].err
    /\ client[r].status = StatusBadGateway
    /\ mtask[r] = "finished"
    /\ calls[r].metrics = 1

\* The RequestDetails a request's own key, path and body give.
OwnDetails(r) ==
  [apiKey |-> req[r].key, endpoint |-> req[r].path,
   model |-> IF EndpointOf(req[r].path) = "" THEN ""
             ELSE ModelNamed(EndpointOf(req[r].path), req[r].body)]

\* The MetricsData a request's own key, path, body and backend answer give.
OwnMetrics(r) ==
  LET tokens == IF backendOut[r].err THEN <<0, 0>>
                ELSE TokensNamed(EndpointOf(req[r].path), backendOut[r].body)
  IN  [apiKey |-> req[r].key, model |-> OwnDetails(r).model,
       inputTokenLength |-> tokens[1], outputTokenLength |-> tokens[2],
       endpoint |-> req[r].path]

\* C34: with several requests handled concurrently, the RequestDetails sent
\* to validation, the response returned and the MetricsData reported for a
\* request are built from that request's own key, path, body and backend
\* response alone, in every interleaving.
C34_OwnDataOnly ==
  \A r \in Reqs :
    /\ calls[r].validation = 1 => details[r] = OwnDetails(r)
    /\ mtask[r] # "none" => (metrics[r] = OwnMetrics(r) /\ Delivered(r))
    /\ verdict[r] = "denied" =>
         client[r] = [headers |-> 1, status |-> StatusUnauthorized,
                      body |-> <<"Unauthorized: Invalid request">>]

C34_Witness ==
  \E r, q \in Reqs :
    /\ r # q
    /\ req[r].path = <<"api", "chat">> /\ req[r].body = ChatBody
    /\ req[q].path = <<"v1", "api", "tags">>
    /\ mtask[r] = "finished" /\ mtask[q] = "finished"
    /\ backendOut[r] = Response(StatusOK, ChatAnswer)
    /\ backendOut[q] = Response(StatusNotFound, <<>>)
    /\ metrics[r].model = "llama2" /\ metrics[r].outputTokenLength = 20
    /\ metrics[q].model = "" /\ metrics[q].endpoint = <<"v1", "api", "tags">>
    /\ client[r].status = StatusOK /\ client[q].status = StatusNotFound

\* The host a backend URL names.
HostOf(u) ==
  CASE u = "http://localhost:11434" -> "localhost:11434"
    [] u = "http://test-ollama:11434" -> "test-ollama:11434"
    [] u = "https://ollama.internal" -> "ollama.internal"
    [] u = "http://127.0.0.1:40001" -> "127.0.0.1:40001"
    [] OTHER -> ""

\* C35: the forwarder keeps the backend target it was built with: every
\* request is forwarded to the URL that was configured at the first call of
\* getReverseProxy, whatever the configured URL is at the time of the request.
C35_TargetFixedAtFirstCall ==
  \A f \in target.forwarded :
    /\ target.proxyOnce
    /\ f.to.host = HostOf(target.first)
    /\ f.to.host # ""

C35_Witness ==
  \E f \in target.forwarded :
    /\ f.configured = "http://test-ollama:11434"
    /\ target.first = "http://localhost:11434"
    /\ f.to = [scheme |-> "http", host |-> "localhost:11434"]

\* C37: when the backend's answer on /api/chat or /api/generate is a stream
\* of several JSON objects, the token counts reported in MetricsData are
\* (0, 0), also when the last object carries non-zero counts; the caller has
\* the whole stream all the same.
C37_StreamedCountsZero ==
  \A r \in Reqs :
    (/\ mtask[r] # "none"
     /\ EndpointOf(req[r].path) \in {"chat", "generate"}
     /\ ~backendOut[r].err
     /\ Len(backendOut[r].body) > 1) =>
      /\ metrics[r].inputTokenLength = 0
      /\ metrics[r].outputTokenLength = 0
      /\ client[r].body = backendOut[r].body

C37_Witness ==
  \E r \in Reqs :
    /\ mtask[r] = "finished"
    /\ req[r].path = <<"api", "generate">>
    /\ backendOut[r].body =
         <<"{\"done\":false}", "{\"prompt_eval_count\":10,\"eval_count\":20}">>
    /\ metrics[r].inputTokenLength = 0
    /\ metrics[r].outputTokenLength = 0

====
